---- MODULE Spec2Model ----
(***************************************************************************)
(* A model of the GPU auxiliary-channel layer of GMTAUXOneKeyBuild:        *)
(*   - the chunked DPCD / I2C transactions of the three driver adapters    *)
(*     (intelDriver over IntelCUI, intelIGCLDriver over igclContext,       *)
(*     nvapiDriver), one action per native call;                           *)
(*   - the provider registry, Detect / DetectByName and the App's          *)
(*     detection cache (ensureGPUDriverForVendor).                         *)
(* Two specifications share the module: Spec (transactions on one driver   *)
(* handle) and SpecDetect (registry, selector and cache).                  *)
(***************************************************************************)
EXTENDS Integers, Sequences, FiniteSets, TLC

VARIABLES
    drv,        \* transactions: the backend of the driver handle in use
    mu,         \* transactions: holder of the handle's mutex, or "free"
    tx,         \* transactions: per thread, the running call's locals
    calls,      \* transactions: per thread, the native calls its call issued
    providers,  \* detection: the registry, a sequence of provider entries
    outcome,    \* detection: what each registered factory does when invoked
    gpuDrivers, \* detection: App.gpuDrivers, cache key -> driver
    gpuDetectErrs, \* detection: App.gpuDetectErrs, cache key -> error
    gpuDetectMu,   \* detection: holder of App.gpuDetectMu, or "free"
    det,        \* detection: per thread, the running ensure call's locals
    probes,     \* detection: per factory, how often it was invoked
    misses,     \* detection: per cache key, how many calls missed the cache
    life,       \* lifetime: the native session of one handle and its cleanup
    conv        \* conversion: the input and the result of a helper call

txVars  == <<drv, mu, tx, calls>>
detVars == <<providers, outcome, gpuDrivers, gpuDetectErrs, gpuDetectMu, det,
             probes, misses>>
auxVars == <<life, conv>>
vars    == <<drv, mu, tx, calls, providers, outcome, gpuDrivers, gpuDetectErrs,
             gpuDetectMu, det, probes, misses, life, conv>>

Threads == {"t1", "t2"}

----------------------------------------------------------------------------
(* Bounds of the model. *)

\* Requested lengths reach MaxChunks full chunks of the backend's cap.
MaxChunks == 3

\* A native session sees at most MaxCloses Close calls.
MaxCloses == 3

\* A Lua table handed to tableToByteSlice has at most MaxTable entries.
MaxTable == 3

\* The registry holds at most MaxProviders entries.
MaxProviders == 3

\* With two concurrent callers the registry holds at most MaxConcProviders.
MaxConcProviders == 2

----------------------------------------------------------------------------
(* uint32 addresses.  A uint32 is kept as two 16-bit limbs <<hi, lo>>, so  *)
(* that `offset += chunk` wraps at 2^32 as it does in Go.                  *)

Limb == 256 * 256

U32Add(a, n) ==
    LET s == a[2] + n
    IN  <<(a[1] + (s \div Limb)) % Limb, s % Limb>>

\* The mathematical sum a + n, never wrapped: its high limb may reach Limb.
NatAdd(a, n) ==
    LET s == a[2] + n
    IN  <<a[1] + (s \div Limb), s % Limb>>

U32Less(a, b) == a[1] < b[1] \/ (a[1] = b[1] /\ a[2] < b[2])

Min(a, b) == IF a < b THEN a ELSE b

CeilDiv(a, b) == (a + b - 1) \div b

----------------------------------------------------------------------------
(* Program constants. *)

\* const maxChunk = uint32(16) in intelDriver.ReadDPCD / WriteDPCD.
intelMaxChunk == 16

\* const maxChunk = 16 in IntelCUI.I2CRead.
cuiI2CMaxChunk == 16

\* The largest length IntelCUI.ReadDPCD / WriteDPCD / i2cReadChunk accept.
cuiMaxLen == 16

\* const auxI2CDataCap = 512: the cap of the control library's requests.
auxI2CDataCap == 512

\* dpAuxMaxPayload = 16: the cap of one NVAPI AUX transaction.
dpAuxMaxPayload == 16

Backends == {"igfx", "igcl", "nvapi"}

Kinds == {"read_dpcd", "write_dpcd", "read_i2c", "write_i2c"}

\* The cap each adapter declares for one native call.
MaxChunk(b) ==
    CASE b = "igfx"  -> intelMaxChunk
      [] b = "igcl"  -> auxI2CDataCap
      [] b = "nvapi" -> dpAuxMaxPayload

----------------------------------------------------------------------------
(* The device behind the native interface, and the callers' inputs. *)

\* The byte the monitor holds at DPCD address a (the reference buffer).
DpcdByte(a) == (a[2] + 7 * a[1]) % 256

DpcdBytes(a, n) == [i \in 1..n |-> DpcdByte(U32Add(a, i - 1))]

\* The byte I2C slave s holds in register r.
I2CByte(s, r) == (3 * r + s) % 256

I2CBytes(s, r, n) == [i \in 1..n |-> I2CByte(s, r + i - 1)]

\* The payload a caller writes: n bytes.
Payload(n) == [i \in 1..n |-> (5 * i + 2) % 256]

\* Requested lengths: around every multiple of the cap up to MaxChunks chunks.
Lens(cap) ==
    {k * cap + d : k \in 0..(MaxChunks - 1), d \in {0, 1, cap - 1}}
        \cup {MaxChunks * cap}

\* DPCD start addresses: low, across a 16-bit carry, and just below 2^32.
DpcdAddrs == {<<0, 0>>, <<0, Limb - 8>>, <<Limb - 1, Limb - 8>>}

\* I2C addresses: 0x50 | (0x1A << 8), and one with bit 7 set and a register
\* whose low byte overflows during a multi-chunk read (0xD0 | (0x1F8 << 8)).
I2CAddrs == {<<0, 26 * 256 + 80>>, <<1, 248 * 256 + 208>>}

\* How one native call can end, per entry point.
NativeOutcomes(api) ==
    CASE api = "cui43"  -> {"ok", "hr", "dev", "status"}
      [] api = "cui44"  -> {"ok", "hr", "dev"}
      [] api = "ctlAUX" -> {"ok", "fail"}
      [] api = "ctlI2C" -> {"ok", "fail"}
      [] api = "dpAux"  -> {"ok", "short", "long", "status", "timeout", "auxerr"}

AllOutcomes ==
    {"ok", "hr", "dev", "status", "fail", "short", "long", "timeout", "auxerr"}

----------------------------------------------------------------------------
(* Values. *)

NoRet == [set |-> FALSE, err |-> "nil", isnil |-> TRUE, data |-> <<>>]

\* A return value: the error ("nil" for none) and, for reads, the buffer
\* (isnil tells Go's nil slice from an empty one).
Ret(e, isnil, d) == [set |-> TRUE, err |-> e, isnil |-> isnil, data |-> d]

IdleTx ==
    [pc |-> "idle", kind |-> "none", addr |-> <<0, 0>>, len |-> 0,
     remaining |-> 0, offset |-> <<0, 0>>, slave |-> 0, reg |-> 0,
     chunk |-> 0, result |-> <<>>, ret |-> NoRet]

\* One native call: the entry point, its operation code, address, offset,
\* length and payload, and how it ended.
Call(api, op, addr, off, size, data, res) ==
    [api |-> api, op |-> op, addr |-> addr, off |-> off, size |-> size,
     data |-> data, res |-> res]

\* What a single-chunk primitive did: the native calls it issued (none or
\* one), its error and, for a read, its bytes.
Prim(cs, e, d) == [calls |-> cs, err |-> e, data |-> d]

----------------------------------------------------------------------------
(* decodeI2CAddress. *)

\* slave := byte(addr & 0x7F)
I2CSlave(a) == a[2] % 128

\* reg := int(addr >> 8)
I2CReg(a) == a[1] * 256 + (a[2] \div 256)

----------------------------------------------------------------------------
(* The single-chunk primitives. *)

\* IntelCUI.auxErr: the error of a failed AUX call.
auxErr(op, o) == IF o = "hr" THEN op \o ": AUX call failed" ELSE op \o ": AUX device error"

\* IntelCUI.ReadDPCD(offset, length).
CuiReadDPCD(offset, length, o) ==
    IF length = 0 \/ length > cuiMaxLen
    THEN Prim(<<>>, "intel igfx: invalid length", <<>>)
    ELSE LET c == Call("cui43", 9, offset, 0, length, <<>>, o)
         IN  IF o \in {"hr", "dev"}
             THEN Prim(<<c>>, auxErr("ReadDPCD", o), <<>>)
             ELSE IF o = "status"
             THEN Prim(<<c>>, "intel igfx: unexpected status byte", <<>>)
             ELSE Prim(<<c>>, "nil", DpcdBytes(offset, length))

\* IntelCUI.WriteDPCD(offset, data).
CuiWriteDPCD(offset, data, o) ==
    IF Len(data) = 0 \/ Len(data) > cuiMaxLen
    THEN Prim(<<>>, "intel igfx: invalid payload size", <<>>)
    ELSE LET c == Call("cui44", 8, offset, 0, Len(data), data, o)
         IN  IF o \in {"hr", "dev"}
             THEN Prim(<<c>>, auxErr("WriteDPCD", o), <<>>)
             ELSE Prim(<<c>>, "nil", <<>>)

\* IntelCUI.i2cWriteSetup(slave7bit, reg): a one-byte write of the register.
i2cWriteSetup(slave, reg, o) ==
    LET c == Call("cui44", 0, <<0, 2 * slave>>, 0, 1, <<reg>>, o)
    IN  IF o \in {"hr", "dev"}
        THEN Prim(<<c>>, auxErr("I2C setup", o), <<>>)
        ELSE Prim(<<c>>, "nil", <<>>)

\* A chunk read that is issued with the last-transfer code every time.
i2cReadChunkAlwaysLast(slave, reg, size, last, o) ==
    LET c == Call("cui43", 1, <<0, 2 * slave>>, 0, size, <<>>, o)
    IN  IF o \in {"hr", "dev"}
        THEN Prim(<<c>>, auxErr("I2C read", o), <<>>)
        ELSE Prim(<<c>>, "nil", I2CBytes(slave, reg, size))

\* IntelCUI.i2cReadChunk(slave7bit, size, last); reg is the register the
\* preceding setup selected on the device.
i2cReadChunk(slave, reg, size, last, o) ==
    IF size <= 0 \/ size > cuiMaxLen
    THEN Prim(<<>>, "intel igfx: invalid chunk size", <<>>)
    ELSE LET c == Call("cui43", IF last THEN 1 ELSE 5, <<0, 2 * slave>>, 0,
                       size, <<>>, o)
         IN  IF o \in {"hr", "dev"}
             THEN Prim(<<c>>, auxErr("I2C read", o), <<>>)
             ELSE Prim(<<c>>, "nil", I2CBytes(slave, reg, size))

\* IntelCUI.I2CWrite(slave7bit, value).
CuiI2CWrite(slave, value, o) ==
    LET c == Call("cui44", 0, <<0, 2 * slave>>, 0, 1, <<value>>, o)
    IN  IF o \in {"hr", "dev"}
        THEN Prim(<<c>>, auxErr("I2CWrite", o), <<>>)
        ELSE Prim(<<c>>, "nil", <<>>)

\* igclContext.ReadDPCD(addr, n).
CtxReadDPCD(addr, n, o) ==
    IF n <= 0 \/ n > auxI2CDataCap
    THEN Prim(<<>>, "invalid dpcd length", <<>>)
    ELSE LET c == Call("ctlAUX", 0, addr, 0, n, <<>>, o)
         IN  IF o # "ok"
             THEN Prim(<<c>>, "ctlAUXAccess(read) failed", <<>>)
             ELSE Prim(<<c>>, "nil", DpcdBytes(addr, n))

\* igclContext.WriteDPCD(addr, data).
CtxWriteDPCD(addr, data, o) ==
    IF Len(data) = 0 \/ Len(data) > auxI2CDataCap
    THEN Prim(<<>>, "invalid dpcd payload", <<>>)
    ELSE LET c == Call("ctlAUX", 1, addr, 0, Len(data), data, o)
         IN  IF o # "ok"
             THEN Prim(<<c>>, "ctlAUXAccess(write) failed", <<>>)
             ELSE Prim(<<c>>, "nil", <<>>)

\* igclContext.ReadI2C(slave7bit, offset, n).
CtxReadI2C(slave, offset, n, o) ==
    IF n <= 0 \/ n > auxI2CDataCap
    THEN Prim(<<>>, "invalid i2c length", <<>>)
    ELSE LET c == Call("ctlI2C", 0, <<0, slave>>, offset, n, <<>>, o)
         IN  IF o # "ok"
             THEN Prim(<<c>>, "ctlI2CAccess(read) failed", <<>>)
             ELSE Prim(<<c>>, "nil", I2CBytes(slave, offset, n))

\* igclContext.WriteI2C(slave7bit, offset, data).
CtxWriteI2C(slave, offset, data, o) ==
    IF Len(data) = 0 \/ Len(data) > auxI2CDataCap
    THEN Prim(<<>>, "invalid i2c payload", <<>>)
    ELSE LET c == Call("ctlI2C", 1, <<0, slave>>, offset, Len(data), data, o)
         IN  IF o # "ok"
             THEN Prim(<<c>>, "ctlI2CAccess(write) failed", <<>>)
             ELSE Prim(<<c>>, "nil", <<>>)

\* The body of nvapiDriver.ReadDPCD after its length checks: one AUX call
\* of LenMinus1 = length - 1; the device reports how many bytes it read.
NvReadDPCD(addr, length, o) ==
    LET c == Call("dpAux", 1, addr, 0, (length - 1) + 1, <<>>, o)
        reported == CASE o = "short" -> 1
                      [] o = "long"  -> length + 1
                      [] OTHER       -> length
        actual == Min(reported, length)
    IN  IF o = "timeout"
        THEN Prim(<<c>>, "nvapi: dp aux transaction timed out", <<>>)
        ELSE IF o = "status"
        THEN Prim(<<c>>, "NvAPI_Disp_DpAuxChannelControl", <<>>)
        ELSE IF o = "auxerr"
        THEN Prim(<<c>>, "nvapi: dp aux error status", <<>>)
        ELSE Prim(<<c>>, "nil", DpcdBytes(addr, actual))

----------------------------------------------------------------------------
(* The adapters' transaction methods. *)

\* chunk := remaining; if chunk > maxChunk { chunk = maxChunk }
ChunkSize(remaining, maxChunk) ==
    IF remaining > maxChunk THEN maxChunk ELSE remaining

\* A slip: the running offset is never advanced.
NextOffsetStuck(offset, chunk) == offset

\* offset += chunk (uint32)
NextOffset(offset, chunk) == U32Add(offset, chunk)

\* A slip: a failed chunk reports the bytes read so far as the result.
FailPartial(st, e) == [st EXCEPT !.pc = "done", !.ret = Ret(e, FALSE, st.result)]

\* return nil, err: the call ends with the chunk's error and no buffer.
Fail(st, e) == [st EXCEPT !.pc = "done", !.ret = Ret(e, TRUE, <<>>)]

\* return result, nil
FinishRead(st) == [st EXCEPT !.pc = "done", !.ret = Ret("nil", FALSE, st.result)]

\* return nil (a write)
FinishWrite(st) == [st EXCEPT !.pc = "done", !.ret = Ret("nil", TRUE, <<>>)]

\* The bytes of the payload a write's next chunk carries.
WriteChunk(st, chunk) ==
    SubSeq(Payload(st.len), st.len - st.remaining + 1,
           st.len - st.remaining + chunk)

\* The rest of one iteration of a DPCD read loop, after the primitive ran.
ReadAdvance(st, chunk, r) ==
    IF r.err # "nil"
    THEN Fail(st, r.err)
    ELSE LET s2 == [st EXCEPT !.result = @ \o r.data,
                              !.offset = NextOffset(@, chunk),
                              !.remaining = @ - chunk]
         IN  IF s2.remaining = 0 THEN FinishRead(s2) ELSE s2

\* The rest of one iteration of a DPCD write loop, after the primitive ran.
WriteAdvance(st, chunk, r) ==
    IF r.err # "nil"
    THEN Fail(st, r.err)
    ELSE LET s2 == [st EXCEPT !.offset = NextOffset(@, chunk),
                              !.remaining = @ - chunk]
         IN  IF s2.remaining = 0 THEN FinishWrite(s2) ELSE s2

Stepped(st, cs) == [st |-> st, calls |-> cs]

\* One iteration of intelDriver.ReadDPCD's loop.
IntelReadDPCD(st, o) ==
    LET chunk == ChunkSize(st.remaining, intelMaxChunk)
        r == CuiReadDPCD(st.offset, chunk, o)
    IN  Stepped(ReadAdvance(st, chunk, r), r.calls)

\* One iteration of intelDriver.WriteDPCD's loop.
IntelWriteDPCD(st, o) ==
    LET chunk == ChunkSize(st.remaining, intelMaxChunk)
        r == CuiWriteDPCD(st.offset, WriteChunk(st, chunk), o)
    IN  Stepped(WriteAdvance(st, chunk, r), r.calls)

\* IntelCUI.I2CRead, first half of an iteration: the register setup, then
\* remaining -= chunk; start += chunk.
CuiI2CReadSetup(st, o) ==
    LET chunk == ChunkSize(st.remaining, cuiI2CMaxChunk)
        r == i2cWriteSetup(st.slave, st.reg % 256, o)
    IN  IF r.err # "nil"
        THEN Stepped(Fail(st, r.err), r.calls)
        ELSE Stepped([st EXCEPT !.pc = "read", !.chunk = chunk,
                                !.remaining = @ - chunk, !.reg = @ + chunk],
                     r.calls)

\* IntelCUI.I2CRead, second half of an iteration: the chunk's read.
CuiI2CReadChunk(st, o) ==
    LET r == i2cReadChunk(st.slave, (st.reg - st.chunk) % 256, st.chunk,
                          st.remaining = 0, o)
    IN  IF r.err # "nil"
        THEN Stepped(Fail(st, r.err), r.calls)
        ELSE LET s2 == [st EXCEPT !.result = @ \o r.data, !.pc = "loop"]
             IN  Stepped(IF s2.remaining = 0 THEN FinishRead(s2) ELSE s2,
                         r.calls)

\* intelDriver.WriteI2C past its length checks: one byte, register dropped.
IntelWriteI2C(st, o) ==
    LET r == CuiI2CWrite(st.slave, Payload(st.len)[1], o)
    IN  Stepped(IF r.err # "nil" THEN Fail(st, r.err) ELSE FinishWrite(st),
                r.calls)

\* One iteration of intelIGCLDriver.ReadDPCD's loop.
IGCLReadDPCD(st, o) ==
    LET chunk == ChunkSize(st.remaining, auxI2CDataCap)
        r == CtxReadDPCD(st.offset, chunk, o)
    IN  Stepped(ReadAdvance(st, chunk, r), r.calls)

\* One iteration of intelIGCLDriver.WriteDPCD's loop.
IGCLWriteDPCD(st, o) ==
    LET chunk == ChunkSize(st.remaining, auxI2CDataCap)
        r == CtxWriteDPCD(st.offset, WriteChunk(st, chunk), o)
    IN  Stepped(WriteAdvance(st, chunk, r), r.calls)

\* One iteration of intelIGCLDriver.ReadI2C's loop.
IGCLReadI2C(st, o) ==
    LET chunk == ChunkSize(st.remaining, auxI2CDataCap)
        r == CtxReadI2C(st.slave, st.reg, chunk, o)
    IN  IF r.err # "nil"
        THEN Stepped(Fail(st, r.err), r.calls)
        ELSE LET s2 == [st EXCEPT !.result = @ \o r.data,
                                  !.remaining = @ - chunk, !.reg = @ + chunk]
             IN  Stepped(IF s2.remaining = 0 THEN FinishRead(s2) ELSE s2,
                         r.calls)

\* One iteration of intelIGCLDriver.WriteI2C's loop.
IGCLWriteI2C(st, o) ==
    LET chunk == ChunkSize(st.remaining, auxI2CDataCap)
        r == CtxWriteI2C(st.slave, st.reg, WriteChunk(st, chunk), o)
    IN  IF r.err # "nil"
        THEN Stepped(Fail(st, r.err), r.calls)
        ELSE LET s2 == [st EXCEPT !.remaining = @ - chunk, !.reg = @ + chunk]
             IN  Stepped(IF s2.remaining = 0 THEN FinishWrite(s2) ELSE s2,
                         r.calls)

\* nvapiDriver.ReadDPCD past its length checks: a single AUX call.
NvapiReadDPCD(st, o) ==
    LET r == NvReadDPCD(st.addr, st.len, o)
    IN  Stepped(IF r.err # "nil"
                THEN Fail(st, r.err)
                ELSE [st EXCEPT !.pc = "done", !.ret = Ret("nil", FALSE, r.data)],
                r.calls)

\* A slip: the 16-byte limit is not checked.
NvapiReadDPCDEntryNoCap(n) ==
    IF n = 0
    THEN Ret("dpcd read length must be greater than zero", TRUE, <<>>)
    ELSE NoRet

\* nvapiDriver.ReadDPCD's length checks.
NvapiReadDPCDEntry(n) ==
    IF n = 0
    THEN Ret("dpcd read length must be greater than zero", TRUE, <<>>)
    ELSE IF n > dpAuxMaxPayload
    THEN Ret("dpcd read length exceeds 16-byte limit", TRUE, <<>>)
    ELSE NoRet

\* An unsupported method that goes on to the lock and the native call.
NvapiUnsupportedProceeds(k) == NoRet

\* nvapiDriver.WriteDPCD / ReadI2C / WriteI2C: return ErrNotImplemented.
NvapiUnsupported(k) == Ret("ErrNotImplemented", TRUE, <<>>)

\* What a method returns before it takes the handle's lock, if anything.
EarlyReturn(b, k, n) ==
    CASE b = "nvapi" /\ k = "read_dpcd" -> NvapiReadDPCDEntry(n)
      [] b = "nvapi" /\ k # "read_dpcd" -> NvapiUnsupported(k)
      [] b # "nvapi" /\ k = "read_dpcd" ->
            IF n = 0
            THEN Ret("dpcd read length must be greater than zero", TRUE, <<>>)
            ELSE NoRet
      [] b # "nvapi" /\ k = "write_dpcd" ->
            IF n = 0 THEN Ret("nil", TRUE, <<>>) ELSE NoRet
      [] b # "nvapi" /\ k = "read_i2c" ->
            IF n = 0 THEN Ret("nil", FALSE, <<>>) ELSE NoRet
      [] b = "igfx" /\ k = "write_i2c" ->
            IF n = 0 THEN Ret("nil", TRUE, <<>>)
            ELSE IF n > 1 THEN Ret("ErrNotImplemented", TRUE, <<>>)
            ELSE NoRet
      [] b = "igcl" /\ k = "write_i2c" ->
            IF n = 0 THEN Ret("nil", TRUE, <<>>) ELSE NoRet

\* The locals of method k(a, n) of a driver of backend b as it starts.
Enter(b, k, a, n) ==
    LET e == EarlyReturn(b, k, n)
        st == [IdleTx EXCEPT !.kind = k, !.addr = a, !.len = n]
    IN  IF e.set
        THEN [st EXCEPT !.pc = "done", !.ret = e]
        ELSE [st EXCEPT !.pc = "lock", !.remaining = n, !.offset = a,
                        !.slave = I2CSlave(a), !.reg = I2CReg(a)]

\* The native entry point the next step of the method calls.
ApiOf(b, st) ==
    CASE b = "igfx" /\ st.kind = "read_dpcd"  -> "cui43"
      [] b = "igfx" /\ st.kind = "write_dpcd" -> "cui44"
      [] b = "igfx" /\ st.kind = "read_i2c"   ->
            IF st.pc = "read" THEN "cui43" ELSE "cui44"
      [] b = "igfx" /\ st.kind = "write_i2c"  -> "cui44"
      [] b = "igcl" /\ st.kind \in {"read_dpcd", "write_dpcd"} -> "ctlAUX"
      [] b = "igcl" /\ st.kind \in {"read_i2c", "write_i2c"}   -> "ctlI2C"
      [] b = "nvapi" -> "dpAux"

\* The next native call of the method and what follows it up to the next
\* native call or the return.
Step(b, st, o) ==
    CASE b = "igfx" /\ st.kind = "read_dpcd"  -> IntelReadDPCD(st, o)
      [] b = "igfx" /\ st.kind = "write_dpcd" -> IntelWriteDPCD(st, o)
      [] b = "igfx" /\ st.kind = "read_i2c"   ->
            IF st.pc = "read" THEN CuiI2CReadChunk(st, o)
            ELSE CuiI2CReadSetup(st, o)
      [] b = "igfx" /\ st.kind = "write_i2c"  -> IntelWriteI2C(st, o)
      [] b = "igcl" /\ st.kind = "read_dpcd"  -> IGCLReadDPCD(st, o)
      [] b = "igcl" /\ st.kind = "write_dpcd" -> IGCLWriteDPCD(st, o)
      [] b = "igcl" /\ st.kind = "read_i2c"   -> IGCLReadI2C(st, o)
      [] b = "igcl" /\ st.kind = "write_i2c"  -> IGCLWriteI2C(st, o)
      [] b = "nvapi"                          -> NvapiReadDPCD(st, o)

----------------------------------------------------------------------------
(* Transactions: the actions. *)

AddrsOf(k) == IF k \in {"read_dpcd", "write_dpcd"} THEN DpcdAddrs ELSE I2CAddrs

\* A caller invokes a transaction method with a length out of lens.
TxBeginWith(t, lens) ==
    /\ tx[t].pc = "idle"
    /\ \E k \in Kinds : \E a \in AddrsOf(k) : \E n \in lens :
          tx' = [tx EXCEPT ![t] = Enter(drv, k, a, n)]
    /\ calls' = [calls EXCEPT ![t] = <<>>]
    /\ UNCHANGED <<drv, mu>>
    /\ UNCHANGED detVars
    /\ UNCHANGED auxVars

\* A caller invokes a transaction method on the driver handle.
TxBegin(t) == TxBeginWith(t, Lens(MaxChunk(drv)))

\* A handle mutex that never blocks.
MuFreeAlways(m) == TRUE

\* d.mu.Lock() may proceed.
MuFree(m) == m = "free"

\* d.mu.Lock()
TxLock(t) ==
    /\ tx[t].pc = "lock"
    /\ MuFree(mu)
    /\ mu' = t
    /\ tx' = [tx EXCEPT ![t].pc = "loop"]
    /\ UNCHANGED <<drv, calls>>
    /\ UNCHANGED detVars
    /\ UNCHANGED auxVars

\* One native call of the method, with the deferred d.mu.Unlock() when the
\* method returns after it.
TxStep(t) ==
    /\ tx[t].pc \in {"loop", "read"}
    /\ mu = t
    /\ \E o \in NativeOutcomes(ApiOf(drv, tx[t])) :
          LET r == Step(drv, tx[t], o)
          IN  /\ tx' = [tx EXCEPT ![t] = r.st]
              /\ calls' = [calls EXCEPT ![t] = @ \o r.calls]
              /\ mu' = IF r.st.pc = "done" THEN "free" ELSE mu
    /\ UNCHANGED drv
    /\ UNCHANGED detVars
    /\ UNCHANGED auxVars

\* The caller takes the method's return value.
TxReturn(t) ==
    /\ tx[t].pc = "done"
    /\ tx' = [tx EXCEPT ![t] = IdleTx]
    /\ calls' = [calls EXCEPT ![t] = <<>>]
    /\ UNCHANGED <<drv, mu>>
    /\ UNCHANGED detVars
    /\ UNCHANGED auxVars

TxInit ==
    /\ drv \in Backends
    /\ mu = "free"
    /\ tx = [t \in Threads |-> IdleTx]
    /\ calls = [t \in Threads |-> <<>>]

\* No native session yet.
NoLife == [state |-> "none", backend |-> "", obj |-> FALSE, finalizer |-> FALSE,
           released |-> 0, closes |-> 0]

\* No helper call yet.
NoConv == [op |-> "none", input |-> <<>>, output |-> <<>>, err |-> FALSE,
           isnil |-> TRUE]

\* No session and no helper call.
AuxIdle ==
    /\ life = NoLife
    /\ conv = NoConv

\* Detection at rest: an empty registry and empty caches.
DetIdle ==
    /\ providers = <<>>
    /\ outcome = <<>>
    /\ gpuDrivers = <<>>
    /\ gpuDetectErrs = <<>>
    /\ gpuDetectMu = "free"
    /\ det = <<>>
    /\ probes = <<>>
    /\ misses = <<>>

Init == TxInit /\ DetIdle /\ AuxIdle

Next ==
    \/ TxBegin("t1")
    \/ TxLock("t1")
    \/ TxStep("t1")
    \/ TxReturn("t1")

\* One caller at a time on one driver handle.
Spec == Init /\ [][Next]_vars

\* Lengths of concurrent transactions: none, one chunk, two chunks.
ConcLens(cap) == {0, 1, cap + 1}

\* One of two concurrent callers invokes a transaction method.
TxBeginConc(t) == TxBeginWith(t, ConcLens(MaxChunk(drv)))

NextConc ==
    \E t \in Threads :
        \/ TxBeginConc(t)
        \/ TxLock(t)
        \/ TxStep(t)
        \/ TxReturn(t)

\* Two concurrent callers on one driver handle.
SpecConc == Init /\ [][NextConc]_vars

----------------------------------------------------------------------------
(* Claims about the chunked transactions (checked under Spec). *)

IntelBackends == {"igfx", "igcl"}

DpcdKinds == {"read_dpcd", "write_dpcd"}

\* Whether every native call of a log succeeded.
AllOk(cs) == \A i \in 1..Len(cs) : cs[i].res = "ok"

\* The bytes the device returned to the calls of a log, in call order.
RECURSIVE ConcatResults(_)
ConcatResults(cs) ==
    IF cs = <<>> THEN <<>>
    ELSE DpcdBytes(Head(cs).addr, Head(cs).size) \o ConcatResults(Tail(cs))

\* The cap the claims give each backend.
ClaimedCap(b) ==
    CASE b = "igfx" -> 16 [] b = "nvapi" -> 16 [] b = "igcl" -> 512

\* A finished Intel-backend DPCD call of length >= 1 by thread t.
DoneIntelDpcd(t) ==
    /\ drv \in IntelBackends
    /\ tx[t].pc = "done"
    /\ tx[t].kind \in DpcdKinds
    /\ tx[t].len >= 1

\* Whether the range [a, a + n) ends at or below 2^32.
NoWrap(a, n) == NatAdd(a, n - 1)[1] < Limb

\* The calls of a log are the first Len(cs) chunks of (a, n) under cap c,
\* with addresses taken modulo 2^32.
ChunksInOrder(cs, a, n, c) ==
    \A i \in 1..Len(cs) :
        /\ cs[i].addr = U32Add(a, (i - 1) * c)
        /\ cs[i].size = Min(c, n - (i - 1) * c)

\* C1 (as amended): an Intel-backend DPCD read or write of length L >= 1
\* whose native calls all succeed returns no error after exactly ceil(L/C)
\* calls, the i-th at address (addr + i*C) mod 2^32 with size
\* min(C, L - i*C); the addresses strictly increase when addr + L <= 2^32;
\* a read returns the concatenation of the chunk results, L bytes, which is
\* the reference buffer of the range.
C1_ChunkingModulo ==
    \A t \in Threads :
        (DoneIntelDpcd(t) /\ AllOk(calls[t])) =>
            LET st == tx[t]
                c  == ClaimedCap(drv)
            IN  /\ st.ret.err = "nil"
                /\ Len(calls[t]) = CeilDiv(st.len, c)
                /\ ChunksInOrder(calls[t], st.addr, st.len, c)
                /\ NoWrap(st.addr, st.len) =>
                      \A i \in 1..(Len(calls[t]) - 1) :
                          U32Less(calls[t][i].addr, calls[t][i + 1].addr)
                /\ st.kind = "read_dpcd" =>
                      /\ st.ret.data = ConcatResults(calls[t])
                      /\ Len(st.ret.data) = st.len
                      /\ st.ret.data = DpcdBytes(st.addr, st.len)

\* C1 as stated: the i-th call targets addr + i*C, so that the addresses
\* strictly increase, for every start address.
C1_ChunkingAsStated ==
    \A t \in Threads :
        (DoneIntelDpcd(t) /\ AllOk(calls[t])) =>
            LET st == tx[t]
                c  == ClaimedCap(drv)
            IN  /\ Len(calls[t]) = CeilDiv(st.len, c)
                /\ \A i \in 1..Len(calls[t]) :
                      /\ calls[t][i].addr = NatAdd(st.addr, (i - 1) * c)
                      /\ calls[t][i].size = Min(c, st.len - (i - 1) * c)
                /\ \A i \in 1..(Len(calls[t]) - 1) :
                      U32Less(calls[t][i].addr, calls[t][i + 1].addr)

\* C1's case: a three-chunk read that succeeded across the 2^32 boundary,
\* and a three-chunk write that succeeded below it.
C1_Witness ==
    /\ drv = "igcl"
    /\ tx["t1"].pc = "done"
    /\ tx["t1"].kind = "read_dpcd"
    /\ tx["t1"].len = 2 * 512 + 1
    /\ tx["t1"].addr = <<Limb - 1, Limb - 8>>
    /\ Len(calls["t1"]) = 3
    /\ AllOk(calls["t1"])
    /\ tx["t1"].ret.err = "nil"

\* The error a failed native call becomes, from the entry point and the
\* operation code of the call.
ErrorOfCall(c) ==
    CASE c.api = "cui43" /\ c.res = "hr"     -> "ReadDPCD: AUX call failed"
      [] c.api = "cui43" /\ c.res = "dev"    -> "ReadDPCD: AUX device error"
      [] c.api = "cui43" /\ c.res = "status" -> "intel igfx: unexpected status byte"
      [] c.api = "cui44" /\ c.res = "hr"     -> "WriteDPCD: AUX call failed"
      [] c.api = "cui44" /\ c.res = "dev"    -> "WriteDPCD: AUX device error"
      [] c.api = "ctlAUX" /\ c.op = 0        -> "ctlAUXAccess(read) failed"
      [] c.api = "ctlAUX" /\ c.op = 1        -> "ctlAUXAccess(write) failed"
      [] OTHER                               -> "?"

C3_NativeLengthWithinCap ==
    \A t \in Threads :
        \A i \in 1..Len(calls[t]) :
            /\ calls[t][i].size >= 1
            /\ calls[t][i].size <= ClaimedCap(drv)

\* C3's case: a request longer than the cap reached the native interface
\* with a full-cap call, on the NVIDIA backend a call of exactly 16 bytes.
C3_Witness ==
    /\ drv = "nvapi"
    /\ tx["t1"].len = 16
    /\ Len(calls["t1"]) = 1
    /\ calls["t1"][1].size = 16

\* C4 as stated: on every backend a DPCD read longer than the cap, whose
\* native calls all succeed, is split into calls of at most the cap and
\* returns a buffer of the requested length.
C4_EveryBackendChunksReads ==
    \A t \in Threads :
        (/\ tx[t].pc = "done"
         /\ tx[t].kind = "read_dpcd"
         /\ tx[t].len > ClaimedCap(drv)
         /\ AllOk(calls[t])) =>
            /\ tx[t].ret.err = "nil"
            /\ Len(tx[t].ret.data) = tx[t].len
            /\ Len(calls[t]) >= 2
            /\ \A i \in 1..Len(calls[t]) : calls[t][i].size <= ClaimedCap(drv)

----------------------------------------------------------------------------
(* Detection: errors, the registry, Detect and DetectByName. *)

\* An error is the sequence of its leaves (errors.Join concatenates); nil
\* is the empty sequence.  Leaf 0 is the ErrNoDriver sentinel, leaf i > 0
\* the construction error of factory i.
Nil == <<>>

ErrNoDriver == <<0>>

HardErr(fn) == <<fn>>

\* errors.Is(err, ErrNoDriver): some leaf of err is the sentinel.
IsErrNoDriver(err) == \E i \in 1..Len(err) : err[i] = 0

\* An accumulation that keeps only the latest hard error.
AccumulateLast(joined, err) == err

\* joined = err if joined == nil, else errors.Join(joined, err)
Accumulate(joined, err) == IF joined = Nil THEN err ELSE joined \o err

\* A lower-casing that leaves every name as it is.
ToLowerIdentity(s) == s

\* strings.ToLower on the names of the model.
ToLower(s) ==
    CASE s = "NVIDIA" -> "nvidia"
      [] s = "Intel"  -> "intel"
      [] s = "A"      -> "a"
      [] s = "D"      -> "d"
      [] s = "I"      -> "i"
      [] s = "M"      -> "m"
      [] s = "N"      -> "n"
      [] s = "V"      -> "v"
      [] OTHER        -> s

\* registerProviderNamed applied to the registrations regs, in order: the
\* entry of registration i holds the lower-cased name and factory i.
Registered(regs) ==
    [i \in 1..Len(regs) |-> [name |-> ToLower(regs[i]), fn |-> i]]

\* What a factory returns when invoked: a driver (its factory's number; 0
\* is the nil driver) and an error.
Invoke(fn, out) ==
    CASE out[fn] = "ok"       -> [driver |-> fn, err |-> Nil]
      [] out[fn] = "nodriver" -> [driver |-> 0, err |-> ErrNoDriver]
      [] out[fn] = "hard"     -> [driver |-> 0, err |-> HardErr(fn)]

\* What a detection pass returns, with the factories it invoked, in order.
PassResult(d, e, log) == [driver |-> d, err |-> e, log |-> log]

\* An end of a failed pass that returns the joined error even when nil.
PassFailedJoinedOnly(joined, log) == PassResult(0, joined, log)

\* The end of a pass in which no factory succeeded.
PassFailed(joined, log) ==
    PassResult(0, IF joined # Nil THEN joined ELSE ErrNoDriver, log)

\* The loop of Detect from entry i on.
RECURSIVE DetectFrom(_, _, _, _, _)
DetectFrom(list, out, i, joined, log) ==
    IF i > Len(list)
    THEN PassFailed(joined, log)
    ELSE LET r == Invoke(list[i].fn, out)
             log2 == Append(log, list[i].fn)
         IN  IF r.err = Nil
             THEN PassResult(r.driver, Nil, log2)
             ELSE IF IsErrNoDriver(r.err)
             THEN DetectFrom(list, out, i + 1, joined, log2)
             ELSE DetectFrom(list, out, i + 1, Accumulate(joined, r.err), log2)

\* gpu.Detect()
Detect(list, out) ==
    IF Len(list) = 0
    THEN PassResult(0, ErrNoDriver, <<>>)
    ELSE DetectFrom(list, out, 1, Nil, <<>>)

\* A name filter that lets every entry through.
MatchesAny(entry, target) == TRUE

\* Whether DetectByName tries the entry: not when
\* entry.name == "" || entry.name != target.
Matches(entry, target) == ~(entry.name = "" \/ entry.name # target)

\* The loop of DetectByName from entry i on.
RECURSIVE DetectByNameFrom(_, _, _, _, _, _)
DetectByNameFrom(list, out, target, i, joined, log) ==
    IF i > Len(list)
    THEN PassFailed(joined, log)
    ELSE IF ~Matches(list[i], target)
    THEN DetectByNameFrom(list, out, target, i + 1, joined, log)
    ELSE LET r == Invoke(list[i].fn, out)
             log2 == Append(log, list[i].fn)
         IN  IF r.err = Nil
             THEN PassResult(r.driver, Nil, log2)
             ELSE IF IsErrNoDriver(r.err)
             THEN DetectByNameFrom(list, out, target, i + 1, joined, log2)
             ELSE DetectByNameFrom(list, out, target, i + 1,
                                   Accumulate(joined, r.err), log2)

\* gpu.DetectByName(name)
DetectByName(name, list, out) ==
    IF name = ""
    THEN Detect(list, out)
    ELSE DetectByNameFrom(list, out, ToLower(name), 1, Nil, <<>>)

----------------------------------------------------------------------------
(* Detection: App.ensureGPUDriverForVendor and its cache. *)

\* The vendor keys App.vendorKeyForDisplay produces.
Vendors == {"", "nvidia", "intel"}

\* The names under which backends register.
RegNames == {"", "intel", "NVIDIA"}

Outcomes == {"ok", "nodriver", "hard"}

\* key := vendor; if key == "" { key = "default" }
KeyOf(vendor) == IF vendor = "" THEN "default" ELSE vendor

\* A driver handle: the factory that made it and which of its invocations;
\* NilDriver is Go's nil interface value.
Driver(fn, inst) == [fn |-> fn, inst |-> inst]

NilDriver == Driver(0, 0)

\* m[key] of a Go map: the zero value when the key is absent.
MapGet(m, key, zero) == IF key \in DOMAIN m THEN m[key] ELSE zero

\* A lookup that finds stored drivers only, not stored errors.
CacheHitDriversOnly(drivers, errs, key) == key \in DOMAIN drivers

\* The condition of the cache lookup:
\* driver, ok := gpuDrivers[key]; ok || gpuDetectErrs[key] != nil
CacheHit(drivers, errs, key) ==
    key \in DOMAIN drivers \/ MapGet(errs, key, Nil) # Nil

\* A lock that never blocks.
CanLockAlways(m) == TRUE

\* app.gpuDetectMu.Lock() may proceed.
CanLock(m) == m = "free"

\* A caller that never runs the unconditional pass after a named one.
NeverFallback(err) == FALSE

\* errors.Is(err, gpu.ErrNoDriver) after DetectByName: run gpu.Detect().
NeedsFallback(err) == IsErrNoDriver(err)

IdleDet ==
    [pc |-> "idle", vendor |-> "", key |-> "", hit |-> FALSE,
     driver |-> NilDriver, err |-> Nil,
     named |-> FALSE, ndriver |-> 0, nerr |-> Nil, nlog |-> <<>>,
     uncond |-> FALSE, udriver |-> 0, uerr |-> Nil, ulog |-> <<>>]

\* The invocation counts after the factories of log ran once more each
\* (a factory appears at most once in the log of one pass).
Probed(p, log) ==
    [f \in DOMAIN p |->
        p[f] + Cardinality({i \in 1..Len(log) : log[i] = f})]

\* The handle a pass's driver is: the latest instance of its factory.
HandleOf(d, p) == IF d = 0 THEN NilDriver ELSE Driver(d, p[d])

\* ensureGPUDriverForVendor(vendor) is called.
EnsureCall(t) ==
    /\ det[t].pc = "idle"
    /\ \E v \in Vendors :
          det' = [det EXCEPT ![t] = [IdleDet EXCEPT !.pc = "lock", !.vendor = v,
                                                    !.key = KeyOf(v)]]
    /\ UNCHANGED <<providers, outcome, gpuDrivers, gpuDetectErrs, gpuDetectMu,
                   probes, misses>>
    /\ UNCHANGED txVars
    /\ UNCHANGED auxVars

\* app.gpuDetectMu.Lock()
EnsureLock(t) ==
    /\ det[t].pc = "lock"
    /\ CanLock(gpuDetectMu)
    /\ gpuDetectMu' = t
    /\ det' = [det EXCEPT ![t].pc = "lookup"]
    /\ UNCHANGED <<providers, outcome, gpuDrivers, gpuDetectErrs, probes, misses>>
    /\ UNCHANGED txVars
    /\ UNCHANGED auxVars

\* The cache lookup hits: return the stored pair (and unlock).
EnsureHit(t) ==
    /\ det[t].pc = "lookup"
    /\ CacheHit(gpuDrivers, gpuDetectErrs, det[t].key)
    /\ det' = [det EXCEPT ![t].pc = "done", ![t].hit = TRUE,
                          ![t].driver = MapGet(gpuDrivers, det[t].key, NilDriver),
                          ![t].err = MapGet(gpuDetectErrs, det[t].key, Nil)]
    /\ gpuDetectMu' = "free"
    /\ UNCHANGED <<providers, outcome, gpuDrivers, gpuDetectErrs, probes, misses>>
    /\ UNCHANGED txVars
    /\ UNCHANGED auxVars

\* The cache lookup misses: the first pass, DetectByName(vendor) for a
\* named request and Detect() otherwise.
EnsureDetect(t) ==
    /\ det[t].pc = "lookup"
    /\ ~CacheHit(gpuDrivers, gpuDetectErrs, det[t].key)
    /\ misses' = [misses EXCEPT ![det[t].key] = @ + 1]
    /\ IF det[t].vendor # ""
       THEN LET r == DetectByName(det[t].vendor, providers, outcome)
                p == Probed(probes, r.log)
            IN  /\ probes' = p
                /\ det' = [det EXCEPT ![t].pc = IF NeedsFallback(r.err)
                                                 THEN "fallback" ELSE "store",
                                      ![t].named = TRUE,
                                      ![t].ndriver = r.driver,
                                      ![t].nerr = r.err,
                                      ![t].nlog = r.log,
                                      ![t].driver = HandleOf(r.driver, p),
                                      ![t].err = r.err]
       ELSE LET r == Detect(providers, outcome)
                p == Probed(probes, r.log)
            IN  /\ probes' = p
                /\ det' = [det EXCEPT ![t].pc = "store",
                                      ![t].uncond = TRUE,
                                      ![t].udriver = r.driver,
                                      ![t].uerr = r.err,
                                      ![t].ulog = r.log,
                                      ![t].driver = HandleOf(r.driver, p),
                                      ![t].err = r.err]
    /\ UNCHANGED <<providers, outcome, gpuDrivers, gpuDetectErrs, gpuDetectMu>>
    /\ UNCHANGED txVars
    /\ UNCHANGED auxVars

\* The named pass ended with ErrNoDriver: driver, err = gpu.Detect().
EnsureFallback(t) ==
    /\ det[t].pc = "fallback"
    /\ LET r == Detect(providers, outcome)
           p == Probed(probes, r.log)
       IN  /\ probes' = p
           /\ det' = [det EXCEPT ![t].pc = "store",
                                 ![t].uncond = TRUE,
                                 ![t].udriver = r.driver,
                                 ![t].uerr = r.err,
                                 ![t].ulog = r.log,
                                 ![t].driver = HandleOf(r.driver, p),
                                 ![t].err = r.err]
    /\ UNCHANGED <<providers, outcome, gpuDrivers, gpuDetectErrs, gpuDetectMu,
                   misses>>
    /\ UNCHANGED txVars
    /\ UNCHANGED auxVars

\* The outcome is recorded under the key and returned (and unlock).
EnsureStore(t) ==
    /\ det[t].pc = "store"
    /\ IF det[t].err # Nil
       THEN /\ gpuDetectErrs' = (det[t].key :> det[t].err) @@ gpuDetectErrs
            /\ UNCHANGED gpuDrivers
       ELSE /\ gpuDrivers' = (det[t].key :> det[t].driver) @@ gpuDrivers
            /\ gpuDetectErrs' = (det[t].key :> Nil) @@ gpuDetectErrs
    /\ det' = [det EXCEPT ![t].pc = "done"]
    /\ gpuDetectMu' = "free"
    /\ UNCHANGED <<providers, outcome, probes, misses>>
    /\ UNCHANGED txVars
    /\ UNCHANGED auxVars

\* The caller takes the result.
EnsureReturn(t) ==
    /\ det[t].pc = "done"
    /\ det' = [det EXCEPT ![t] = IdleDet]
    /\ UNCHANGED <<providers, outcome, gpuDrivers, gpuDetectErrs, gpuDetectMu,
                   probes, misses>>
    /\ UNCHANGED txVars
    /\ UNCHANGED auxVars

\* No transaction runs.
TxIdle ==
    /\ drv = "igfx"
    /\ mu = "free"
    /\ tx = [t \in Threads |-> IdleTx]
    /\ calls = [t \in Threads |-> <<>>]

\* A new App over a registry of at most n entries with fixed factories.
DetInit(n) ==
    /\ \E k \in 0..n :
          /\ providers \in {Registered(regs) : regs \in [1..k -> RegNames]}
          /\ outcome \in [1..k -> Outcomes]
    /\ gpuDrivers = <<>>
    /\ gpuDetectErrs = <<>>
    /\ gpuDetectMu = "free"
    /\ det = [t \in Threads |-> IdleDet]
    /\ probes = [f \in DOMAIN providers |-> 0]
    /\ misses = [k \in {KeyOf(v) : v \in Vendors} |-> 0]

InitDetect == TxIdle /\ DetInit(MaxProviders) /\ AuxIdle

NextDetect ==
    \/ EnsureCall("t1")
    \/ EnsureLock("t1")
    \/ EnsureHit("t1")
    \/ EnsureDetect("t1")
    \/ EnsureFallback("t1")
    \/ EnsureStore("t1")
    \/ EnsureReturn("t1")

\* One caller after another on one App.
SpecDetect == InitDetect /\ [][NextDetect]_vars

InitDetectConc == TxIdle /\ DetInit(MaxConcProviders) /\ AuxIdle

NextDetectConc ==
    \E t \in Threads :
        \/ EnsureCall(t)
        \/ EnsureLock(t)
        \/ EnsureHit(t)
        \/ EnsureDetect(t)
        \/ EnsureFallback(t)
        \/ EnsureStore(t)
        \/ EnsureReturn(t)

\* Two concurrent callers on one App.
SpecDetectConc == InitDetectConc /\ [][NextDetectConc]_vars

----------------------------------------------------------------------------
(* Properties of detection. *)

CacheKeys == {KeyOf(v) : v \in Vendors}

\* The pair stored under a key.
Stored(key) == [driver |-> MapGet(gpuDrivers, key, NilDriver),
                err |-> MapGet(gpuDetectErrs, key, Nil)]

\* What a finished call returned.
Returned(t) == [driver |-> det[t].driver, err |-> det[t].err]

\* A call that found its key stored invoked no factory and returns the
\* stored pair; no key is detected twice.
C5_State ==
    /\ \A k \in CacheKeys : misses[k] <= 1
    /\ \A t \in Threads :
          det[t].pc = "done" =>
             /\ CacheHit(gpuDrivers, gpuDetectErrs, det[t].key)
             /\ Returned(t) = Stored(det[t].key)
             /\ det[t].hit => (det[t].nlog = <<>> /\ det[t].ulog = <<>>
                               /\ ~det[t].named /\ ~det[t].uncond)
    /\ \A v \in Vendors : (v = "") <=> (KeyOf(v) = "default")

\* A stored entry stays as it is, and while a call runs whose key is
\* stored no factory is invoked.
C5_Step ==
    /\ \A k \in CacheKeys :
          CacheHit(gpuDrivers, gpuDetectErrs, k) =>
             /\ CacheHit(gpuDrivers', gpuDetectErrs', k)
             /\ MapGet(gpuDrivers', k, NilDriver) = MapGet(gpuDrivers, k, NilDriver)
             /\ MapGet(gpuDetectErrs', k, Nil) = MapGet(gpuDetectErrs, k, Nil)
    /\ \A t \in Threads :
          (det[t].pc \in {"lock", "lookup"}
             /\ CacheHit(gpuDrivers, gpuDetectErrs, det[t].key)
             /\ det'[t] # det[t])
          => probes' = probes

\* C5: detection for a cache key happens at most once per App: once a
\* call has stored its outcome under the key (a driver or an error, the
\* no-driver error included), every later call with that key invokes no
\* factory and returns the identical stored pair, and the stored entry
\* never changes; the empty vendor uses the key "default".
C5_DetectOncePerKey == []C5_State /\ [][C5_Step]_vars

\* A second call for "nvidia" returns the stored no-driver error.
C5_Witness ==
    /\ det["t1"].pc = "done"
    /\ det["t1"].hit
    /\ det["t1"].key = "nvidia"
    /\ det["t1"].err = ErrNoDriver
    /\ misses["nvidia"] = 1
    /\ Len(providers) > 0

InSection(t) == det[t].pc \in {"lookup", "fallback", "store"}

\* C6: under every interleaving of concurrent calls, lookup and
\* populate-on-miss are one critical section: at most one caller is
\* between Lock and Unlock, it holds the mutex, at most one caller runs
\* the detection of a key, and all callers of a key receive the same
\* stored driver or error.
C6_OneCriticalSection ==
    /\ \A t, u \in Threads : (InSection(t) /\ InSection(u)) => t = u
    /\ \A t \in Threads : InSection(t) => gpuDetectMu = t
    /\ \A k \in CacheKeys : misses[k] <= 1
    /\ \A t \in Threads :
          det[t].pc = "done" => Returned(t) = Stored(det[t].key)
    /\ \A t, u \in Threads :
          (det[t].pc = "done" /\ det[u].pc = "done" /\ det[t].key = det[u].key)
             => Returned(t) = Returned(u)

\* Two concurrent callers of one key are done: one ran the detection, the
\* other received what it stored.
C6_Witness ==
    /\ det["t1"].pc = "done"
    /\ det["t2"].pc = "done"
    /\ det["t1"].key = det["t2"].key
    /\ ~det["t1"].hit
    /\ det["t2"].hit
    /\ det["t2"].driver.fn # 0

\* The vendor key matches no registered entry.
Unregistered(v) ==
    \A i \in 1..Len(providers) : providers[i].name # ToLower(v)

\* Same driver (the same backend) on success, same error on failure.
SameOutcome(a, b) == a.driver.fn = b.driver.fn /\ a.err = b.err

\* C7: for every registry and all fixed factory outcomes, a named request
\* whose vendor key matches no registered entry has the outcome of an
\* unconditional request (empty key): the same backend's driver on
\* success, the same error on failure.
C7_UnregisteredAsUnconditional ==
    /\ \A v \in Vendors \ {""} :
          (Unregistered(v)
             /\ CacheHit(gpuDrivers, gpuDetectErrs, KeyOf(v))
             /\ CacheHit(gpuDrivers, gpuDetectErrs, "default"))
          => SameOutcome(Stored(KeyOf(v)), Stored("default"))
    /\ \A t \in Threads :
          (det[t].pc = "done" /\ ~det[t].hit /\ det[t].vendor # ""
             /\ Unregistered(det[t].vendor))
          => /\ det[t].driver.fn = Detect(providers, outcome).driver
             /\ det[t].err = Detect(providers, outcome).err

\* Both an unregistered "intel" request and an unconditional one are
\* stored, with a driver.
C7_Witness ==
    /\ Unregistered("intel")
    /\ "intel" \in DOMAIN gpuDrivers
    /\ "default" \in DOMAIN gpuDrivers
    /\ gpuDrivers["intel"].fn # 0
    /\ Len(providers) > 1

\* The entries a named request for v matches, in registration order.
MatchingOf(v) ==
    {i \in 1..Len(providers) :
        providers[i].name # "" /\ providers[i].name = ToLower(v)}

\* The entries an unconditional pass invokes: all of them, in order, up to
\* the first that succeeds.
UnconditionalLog ==
    LET oks == {i \in 1..Len(providers) : outcome[providers[i].fn] = "ok"}
        m == IF oks = {} THEN Len(providers)
             ELSE CHOOSE i \in oks : \A j \in oks : i <= j
    IN  [i \in 1..m |-> providers[i].fn]

\* C8: in a named request whose matching entries all fail with
\* ErrNoDriver, the unconditional pass over all registered entries runs
\* next and its result is returned; when a matching entry succeeds, the
\* driver of the (first such) entry is returned and the unconditional
\* pass is not run.
C8_FallbackAfterNotApplicable ==
    \A t \in Threads :
       (det[t].pc = "done" /\ ~det[t].hit /\ det[t].vendor # "") =>
          LET ms == MatchingOf(det[t].vendor)
              oks == {i \in ms : outcome[providers[i].fn] = "ok"}
          IN  /\ (\A i \in ms : outcome[providers[i].fn] = "nodriver") =>
                    /\ det[t].uncond
                    /\ det[t].ulog = UnconditionalLog
                    /\ det[t].driver.fn = det[t].udriver
                    /\ det[t].err = det[t].uerr
              /\ oks # {} =>
                    /\ det[t].driver.fn =
                          providers[CHOOSE i \in oks : \A j \in oks : i <= j].fn
                    /\ det[t].err = Nil
                    /\ ~det[t].uncond
                    /\ det[t].ulog = <<>>

\* A request for "nvidia" whose entry is not applicable got the driver of
\* another backend from the unconditional pass.
C8_Witness ==
    /\ det["t1"].pc = "done"
    /\ det["t1"].vendor = "nvidia"
    /\ MatchingOf("nvidia") # {}
    /\ det["t1"].nerr = ErrNoDriver
    /\ det["t1"].nlog # <<>>
    /\ det["t1"].uncond
    /\ det["t1"].driver.fn # 0
    /\ ~(det["t1"].driver.fn \in {providers[i].fn : i \in MatchingOf("nvidia")})

\* C9: a request (named or unconditional) returns a construction error
\* only if every registered factory fails: whenever some registered
\* factory would succeed the request returns a driver, also when the
\* backend of the requested name failed with a hard error; when none
\* succeeds, every hard error encountered is in the returned error.
C9_ErrorOnlyIfEveryFactoryFails ==
    \A t \in Threads :
       (det[t].pc = "done" /\ ~det[t].hit) =>
          /\ (\E f \in DOMAIN outcome : outcome[f] = "ok") =>
                (det[t].err = Nil /\ det[t].driver.fn # 0)
          /\ (\A f \in DOMAIN outcome : outcome[f] # "ok") =>
                \A i \in 1..Len(det[t].nlog \o det[t].ulog) :
                   LET f == (det[t].nlog \o det[t].ulog)[i]
                   IN  outcome[f] = "hard" =>
                          \E j \in 1..Len(det[t].err) : det[t].err[j] = f

IsHard(f) == outcome[f] = "hard"

\* What C10 says of one pass, given its error and its invocations.
PassAggregates(err, log) ==
    /\ (err # Nil /\ \E i \in 1..Len(log) : IsHard(log[i])) =>
          /\ err = SelectSeq(log, IsHard)
          /\ ~IsErrNoDriver(err)
    /\ err = ErrNoDriver => \A i \in 1..Len(log) : ~IsHard(log[i])

\* C10: whenever a detection pass fails and a factory it invoked failed
\* with a hard error, the returned error holds exactly the hard errors of
\* the invoked factories in invocation order and errors.Is(result,
\* ErrNoDriver) is false; ErrNoDriver is returned only when no hard error
\* was collected.
C10_AggregateHoldsHardErrorsOnly ==
    \A t \in Threads :
       /\ det[t].named => PassAggregates(det[t].nerr, det[t].nlog)
       /\ det[t].uncond => PassAggregates(det[t].uerr, det[t].ulog)

\* An unconditional pass met a not-applicable backend and two hard
\* failures, and returned the two hard errors.
C10_Witness ==
    /\ det["t1"].uncond
    /\ Len(det["t1"].uerr) = 2
    /\ Len(det["t1"].ulog) = 3
    /\ \E i \in 1..3 : outcome[det["t1"].ulog[i]] = "nodriver"

----------------------------------------------------------------------------
(* The selector called directly, as a test of the gpu package does. *)

\* The names DetectByName is called with.
SelectNames == {"", "nvidia", "NVIDIA", "Intel", "amd"}

\* gpu.DetectByName(name), called once on a fresh registry.
SelectByName(t) ==
    /\ det[t].pc = "idle"
    /\ \E name \in SelectNames :
          LET r == DetectByName(name, providers, outcome)
              p == Probed(probes, r.log)
          IN  /\ probes' = p
              /\ det' = [det EXCEPT ![t] =
                            [IdleDet EXCEPT !.pc = "selected",
                                            !.vendor = name,
                                            !.named = TRUE,
                                            !.ndriver = r.driver,
                                            !.nerr = r.err,
                                            !.nlog = r.log,
                                            !.driver = HandleOf(r.driver, p),
                                            !.err = r.err]]
    /\ UNCHANGED <<providers, outcome, gpuDrivers, gpuDetectErrs, gpuDetectMu,
                   misses>>
    /\ UNCHANGED txVars
    /\ UNCHANGED auxVars

NextSelect == SelectByName("t1")

\* One direct DetectByName call on every registry.
SpecSelect == InitDetect /\ [][NextSelect]_vars

----------------------------------------------------------------------------
(* Properties of the two passes. *)

\* The registered entries that succeed, by position.
OkEntries == {i \in 1..Len(providers) : outcome[providers[i].fn] = "ok"}

\* C11: an unconditional Detect pass invokes the registered factories in
\* registration order, those registered under a vendor name included,
\* returns the driver of the first that succeeds and invokes none
\* registered after it; with an empty registry, or when every factory
\* reports not-applicable, it returns exactly ErrNoDriver.
C11_UnconditionalFirstSuccess ==
    \A t \in Threads :
       det[t].uncond =>
          /\ \A i \in 1..Len(det[t].ulog) : det[t].ulog[i] = providers[i].fn
          /\ Len(det[t].ulog) <= Len(providers)
          /\ OkEntries # {} =>
                LET first == CHOOSE i \in OkEntries : \A j \in OkEntries : i <= j
                IN  /\ det[t].udriver = providers[first].fn
                    /\ det[t].uerr = Nil
                    /\ Len(det[t].ulog) = first
          /\ OkEntries = {} => Len(det[t].ulog) = Len(providers)
          /\ (\A i \in 1..Len(providers) : outcome[providers[i].fn] = "nodriver")
                => (det[t].uerr = ErrNoDriver /\ det[t].udriver = 0)

\* An unconditional pass went past a not-applicable entry, took the driver
\* of a factory registered under a name and left the third entry alone.
C11_Witness ==
    /\ det["t1"].uncond
    /\ Len(providers) = 3
    /\ Len(det["t1"].ulog) = 2
    /\ providers[2].name # ""
    /\ outcome[1] = "nodriver"
    /\ det["t1"].udriver = 2
    /\ probes[3] = 0

\* Names that differ in letter case only.
CaseClasses == {{"nvidia", "NVIDIA"}, {"intel", "Intel"}, {"amd"}}

SameIgnoringCase(a, b) ==
    a = b \/ \E c \in CaseClasses : a \in c /\ b \in c

\* The positions whose registered key equals name ignoring case, in
\* registration order, up to the first that succeeds.
NamedLog(name) ==
    LET ms == {i \in 1..Len(providers) :
                  SameIgnoringCase(providers[i].name, name)}
        oks == ms \cap OkEntries
        upto == IF oks = {} THEN Len(providers)
                ELSE CHOOSE i \in oks : \A j \in oks : i <= j
        IsTried(i) == i \in ms /\ i <= upto
    IN  SelectSeq([i \in 1..Len(providers) |-> i], IsTried)

\* C12: DetectByName(name) with a non-empty name invokes exactly the
\* factories whose registered key equals name ignoring letter case, in
\* registration order, stopping at the first success; it never invokes a
\* factory registered with the empty key or with another key.
C12_NamedPassInvokesMatchingOnly ==
    \A t \in Threads :
       (det[t].pc = "selected" /\ det[t].vendor # "") =>
          /\ det[t].nlog = [k \in 1..Len(NamedLog(det[t].vendor)) |->
                               providers[NamedLog(det[t].vendor)[k]].fn]
          /\ \A i \in 1..Len(providers) :
                (providers[i].name = ""
                   \/ ~SameIgnoringCase(providers[i].name, det[t].vendor))
                => probes[providers[i].fn] = 0
          /\ det[t].ndriver # 0 =>
                det[t].ndriver = det[t].nlog[Len(det[t].nlog)]

\* DetectByName("NVIDIA") went past a failing entry registered as
\* "nvidia", took the driver of the next one and invoked no other entry.
C12_Witness ==
    /\ det["t1"].pc = "selected"
    /\ det["t1"].vendor = "NVIDIA"
    /\ Len(providers) = 3
    /\ det["t1"].nlog = <<2, 3>>
    /\ det["t1"].ndriver = 3
    /\ probes[1] = 0

----------------------------------------------------------------------------
(* Properties of the I2C address split. *)

I2CKinds == {"read_i2c", "write_i2c"}

\* The slave address a native I2C call carries: the control library takes
\* the 7-bit address, the COM interface the 8-bit form 2 * slave.
SlaveOfCall(b, c) == IF b = "igcl" THEN c.addr[2] ELSE c.addr[2] \div 2

\* The register a native I2C call carries: the control library's Offset,
\* the byte written by the COM interface's first call.
RegisterOfCall(b, c) == IF b = "igcl" THEN c.off ELSE c.data[1]

\* C13: decodeI2CAddress splits the address into slave = low 7 bits and
\* register = the bits from bit 8 upward, so 0x50 | (0x1A << 8) decodes to
\* slave 0x50 and register 0x1A, and on every backend that performs I2C the
\* slave and the register reaching the native call are the decoded values.
C13_DecodedSplitReachesNative ==
    /\ I2CSlave(<<0, 80 + 26 * 256>>) = 80
    /\ I2CReg(<<0, 80 + 26 * 256>>) = 26
    /\ \A t \in Threads :
          (tx[t].kind \in I2CKinds /\ calls[t] # <<>>) =>
             /\ SlaveOfCall(drv, calls[t][1]) = I2CSlave(tx[t].addr)
             /\ RegisterOfCall(drv, calls[t][1]) = I2CReg(tx[t].addr)

----------------------------------------------------------------------------
(* Properties of concurrent transactions on one handle. *)

\* Between its Lock and its return a transaction issues its native calls.
InTransaction(t) == tx[t].pc \in {"loop", "read"}

\* No two transactions are between Lock and return at once, and the one
\* that is holds the handle's mutex.
C14_State ==
    /\ \A t, u \in Threads : (InTransaction(t) /\ InTransaction(u)) => t = u
    /\ \A t \in Threads : InTransaction(t) => mu = t

\* A native call of one transaction is issued while no other transaction
\* has native calls still to come after its first.
C14_Step ==
    \A t, u \in Threads :
       (t # u /\ calls'[t] # calls[t] /\ calls'[t] # <<>>) =>
          /\ ~InTransaction(u)
          /\ calls'[u] = calls[u]
          /\ (calls[u] # <<>> => tx[u].pc = "done")

\* C14: of two concurrent transaction calls on one driver handle, whole
\* transactions exclude each other: no native call of one occurs between
\* the first and the last native call of the other, all chunks of a
\* multi-chunk read or write included.
C14_TransactionsExcludeEachOther == []C14_State /\ [][C14_Step]_vars

\* One caller is between the two chunks of a read while the other waits
\* at the mutex.
C14_Witness ==
    /\ tx["t1"].pc = "loop"
    /\ tx["t1"].kind = "read_dpcd"
    /\ Len(calls["t1"]) = 1
    /\ tx["t1"].remaining > 0
    /\ tx["t2"].pc = "lock"

----------------------------------------------------------------------------
(* The lifetime of a driver handle and its native session. *)

\* Whether the backend's constructor ends with runtime.SetFinalizer.
HasFinalizer(b) == b \in {"igfx", "igcl"}

\* Whether the backend's session type has a Close method.
HasClose(b) == b \in {"igfx", "igcl"}

\* A Close that releases without looking at or clearing the pointer.
SessionCloseKeepsPointer(l) == [l EXCEPT !.released = @ + 1]

\* IntelCUI.Close / igclContext.Close on the session: nothing when the
\* pointer is nil, else the native release and the pointer set to nil.
SessionClose(l) ==
    IF ~l.obj
    THEN l
    ELSE [l EXCEPT !.released = @ + 1, !.obj = FALSE]

\* One Close call, counted.
Closed(l) == [SessionClose(l) EXCEPT !.closes = @ + 1]

\* The session as the constructor of backend b creates it.
NewSession(b) == [NoLife EXCEPT !.backend = b, !.obj = TRUE]

\* newIntelDriver / newIntelIGCLDriver / newNVAPIDriver: the session is
\* created; then either a later step fails (the Intel constructors close
\* the session, the NVIDIA one returns) or the handle is returned, with
\* its finalizer where the constructor registers one.
Construct ==
    /\ life.state = "none"
    /\ \E o \in {"ok", "late_failure"} :
          life' = IF o = "ok"
                  THEN [NewSession(drv) EXCEPT !.state = "live",
                                               !.finalizer = HasFinalizer(drv)]
                  ELSE IF HasClose(drv)
                  THEN [Closed(NewSession(drv)) EXCEPT !.state = "failed"]
                  ELSE [NewSession(drv) EXCEPT !.state = "failed"]
    /\ UNCHANGED conv
    /\ UNCHANGED txVars
    /\ UNCHANGED detVars

\* Close is called on the session, between transactions.
CloseCall ==
    /\ life.state # "none"
    /\ HasClose(life.backend)
    /\ life.closes < MaxCloses
    /\ \A t \in Threads : tx[t].pc = "idle"
    /\ life' = Closed(life)
    /\ UNCHANGED conv
    /\ UNCHANGED txVars
    /\ UNCHANGED detVars

\* The handle is unreachable and collected: its finalizer, if one is
\* registered, calls Close.
Collect ==
    /\ life.state = "live"
    /\ \A t \in Threads : tx[t].pc = "idle"
    /\ life' = IF life.finalizer
               THEN [Closed(life) EXCEPT !.state = "collected"]
               ELSE [life EXCEPT !.state = "collected"]
    /\ UNCHANGED conv
    /\ UNCHANGED txVars
    /\ UNCHANGED detVars

\* The handle can be used: it is live and its session is open.
Usable == life.state = "live" /\ life.obj

NextLife ==
    \/ Construct
    \/ CloseCall
    \/ Collect
    \/ (Usable /\ TxBegin("t1"))
    \/ (Usable /\ TxLock("t1"))
    \/ (Usable /\ TxStep("t1"))
    \/ (Usable /\ TxReturn("t1"))

\* A handle from construction over its use to its collection.
SpecLife == Init /\ [][NextLife]_vars

----------------------------------------------------------------------------
(* Properties of release. *)

\* The native release ran at most once, and it ran when Close was called.
C15_State ==
    /\ life.released <= 1
    /\ life.closes >= 1 => (life.released = 1 /\ ~life.obj)

\* The first Close releases; a later Close changes nothing of the session.
C15_Step ==
    life'.closes = life.closes + 1 =>
       /\ life.closes = 0 => (life.released = 0 /\ life'.released = 1)
       /\ life.closes >= 1 => (life'.released = life.released
                               /\ life'.obj = life.obj)

\* C15: release is idempotent: over any sequence of Close calls on one
\* native session (IntelCUI.Close, igclContext.Close) the native release
\* is invoked exactly once, by the first call, and every later Close is a
\* no-op that does not touch the native object.
C15_ReleaseIdempotent == []C15_State /\ [][C15_Step]_vars

\* Close was called twice by hand and once by the finalizer; the session
\* was released once.
C15_Witness ==
    /\ life.state = "collected"
    /\ life.closes = 3
    /\ life.released = 1

\* C16: every backend adapter that constructs successfully (COM,
\* control-library, NVIDIA) registers a finalizer-style cleanup, so its
\* native session is released exactly once over the handle's lifetime,
\* closed explicitly or not.
C16_EveryAdapterRegistersCleanup ==
    /\ life.state \in {"live", "collected"} => life.finalizer
    /\ life.state = "collected" => life.released = 1

----------------------------------------------------------------------------
(* Properties of unsupported and zero-length calls. *)

NvapiUnsupportedKinds == {"write_dpcd", "read_i2c", "write_i2c"}

\* C17: on the NVIDIA backend WriteDPCD, ReadI2C and WriteI2C return the
\* ErrNotImplemented sentinel for every argument, issue no native call and
\* do not take the handle lock; the sentinel differs from every transport
\* error of that backend.
C17_NvidiaUnsupportedOperations ==
    drv = "nvapi" =>
       \A t \in Threads :
          /\ tx[t].kind \in NvapiUnsupportedKinds =>
                /\ tx[t].pc = "done"
                /\ tx[t].ret.err = "ErrNotImplemented"
                /\ tx[t].ret.isnil
                /\ calls[t] = <<>>
                /\ mu # t
          /\ (tx[t].kind = "read_dpcd" /\ tx[t].pc = "done") =>
                tx[t].ret.err # "ErrNotImplemented"

\* WriteI2C of 17 bytes on the NVIDIA backend returned ErrNotImplemented.
C17_Witness ==
    /\ drv = "nvapi"
    /\ tx["t1"].kind = "write_i2c"
    /\ tx["t1"].len = 17
    /\ tx["t1"].pc = "done"
    /\ tx["t1"].ret.err = "ErrNotImplemented"

ReadKinds == {"read_dpcd", "read_i2c"}

\* How a zero-length read ended: with an error, or with an empty result.
ZeroClass(ret) == IF ret.err # "nil" THEN "rejected" ELSE "empty"

\* The other read method of the handle.
OtherRead(k) == IF k = "read_dpcd" THEN "read_i2c" ELSE "read_dpcd"

\* C18: zero-length reads are handled consistently within each backend:
\* ReadDPCD(addr, 0) and ReadI2C(addr, 0) of one backend either both
\* reject with an error or both return an empty result, and neither
\* issues a native call.
C18_ZeroLengthReadsConsistent ==
    \A t \in Threads :
       (tx[t].pc = "done" /\ tx[t].kind \in ReadKinds /\ tx[t].len = 0) =>
          /\ calls[t] = <<>>
          /\ \A a \in AddrsOf(OtherRead(tx[t].kind)) :
                ZeroClass(tx[t].ret)
                   = ZeroClass(Enter(drv, OtherRead(tx[t].kind), a, 0).ret)

----------------------------------------------------------------------------
(* tableToByteSlice. *)

\* Lua values: a number, held as twice its value so that halves are
\* exact, a string, and nil.
LNumber(twice) == [t |-> "number", twice |-> twice]

LString == [t |-> "string", twice |-> 0]

LNil == [t |-> "nil", twice |-> 0]

\* The values of table entries: -1, 0, 0.5, 128, 255, 255.5, 256, a
\* string and nil.
LValues ==
    {LNumber(h) : h \in {-2, 0, 1, 256, 510, 511, 512}} \cup {LString, LNil}

\* The array parts of the tables.
LTables == UNION {[1..n -> LValues] : n \in 0..MaxTable}

\* LTable.Len(): the position of the last entry of the array part that is
\* not nil.
TableLen(tbl) ==
    LET set == {i \in 1..Len(tbl) : tbl[i] # LNil}
    IN  IF set = {} THEN 0 ELSE CHOOSE i \in set : \A j \in set : j <= i

\* int(floatVal): truncation toward zero.
IntOf(val) ==
    IF val.twice >= 0 THEN val.twice \div 2 ELSE -((-val.twice) \div 2)

\* float64(int(floatVal)) == floatVal
IsIntegral(val) == 2 * IntOf(val) = val.twice

\* A range check that lets every value through.
InByteRangeAlways(v) == TRUE

\* not (v < 0 || v > 255)
InByteRange(v) == ~(v < 0 \/ v > 255)

\* byte(v)
ByteOf(v) == v % 256

\* What tableToByteSlice returns: the buffer (nil with an error) and
\* whether there is an error.
ConvResult(data, isnil, err) == [data |-> data, isnil |-> isnil, err |-> err]

\* The loop of tableToByteSlice from entry i on.
RECURSIVE FillFrom(_, _, _, _)
FillFrom(tbl, length, i, data) ==
    IF i > length
    THEN ConvResult(data, FALSE, FALSE)
    ELSE IF tbl[i].t # "number"
    THEN ConvResult(<<>>, TRUE, TRUE)
    ELSE IF ~IsIntegral(tbl[i])
    THEN ConvResult(<<>>, TRUE, TRUE)
    ELSE IF ~InByteRange(IntOf(tbl[i]))
    THEN ConvResult(<<>>, TRUE, TRUE)
    ELSE FillFrom(tbl, length, i + 1, Append(data, ByteOf(IntOf(tbl[i]))))

\* tableToByteSlice(tbl)
tableToByteSlice(tbl) ==
    IF TableLen(tbl) = 0
    THEN ConvResult(<<>>, FALSE, FALSE)
    ELSE FillFrom(tbl, TableLen(tbl), 1, <<>>)

\* A script hands a table to write_dpcd / write_i2c, which converts it.
ConvertTable ==
    /\ conv = NoConv
    /\ \E tbl \in LTables :
          LET r == tableToByteSlice(tbl)
          IN  conv' = [op |-> "tableToByteSlice", input |-> tbl,
                       output |-> r.data, err |-> r.err, isnil |-> r.isnil]
    /\ UNCHANGED life
    /\ UNCHANGED txVars
    /\ UNCHANGED detVars

NextConv == ConvertTable

\* One conversion of every table.
SpecConv == Init /\ [][NextConv]_vars

\* The entries of the sequence a table holds: up to its last non-nil one.
SeqLen(tbl) ==
    IF \A i \in 1..Len(tbl) : tbl[i].t = "nil" THEN 0
    ELSE CHOOSE n \in 1..Len(tbl) :
            tbl[n].t # "nil" /\ \A j \in (n + 1)..Len(tbl) : tbl[j].t = "nil"

\* The entry is a number, an integer, and within 0..255.
IsByteValue(val) ==
    /\ val.t = "number"
    /\ val.twice % 2 = 0
    /\ val.twice >= 0
    /\ val.twice <= 510

\* C19: tableToByteSlice converts a 1-indexed sequence of n integers in
\* 0..255 into the n-byte buffer with the same values in the same order
\* ({0,255,128} gives 0x00,0xFF,0x80; the empty sequence an empty buffer)
\* and returns an error and no buffer when an entry is not a number, not
\* an integer, negative or above 255; no value is clamped or truncated.
C19_TableToBytes ==
    conv.op = "tableToByteSlice" =>
       LET tbl == conv.input
           n == SeqLen(tbl)
       IN  IF \A i \in 1..n : IsByteValue(tbl[i])
           THEN /\ ~conv.err
                /\ ~conv.isnil
                /\ Len(conv.output) = n
                /\ \A i \in 1..n : 2 * conv.output[i] = tbl[i].twice
           ELSE /\ conv.err
                /\ conv.isnil
                /\ conv.output = <<>>

\* {0, 255, 128} was converted to 0x00, 0xFF, 0x80.
C19_Witness ==
    /\ conv.op = "tableToByteSlice"
    /\ conv.input = <<LNumber(0), LNumber(510), LNumber(256)>>
    /\ conv.output = <<0, 255, 128>>
    /\ ~conv.err

----------------------------------------------------------------------------
(* App.vendorKeyForDisplay and App.ensureGPUDriver. *)

\* A display with its adapter description, a string held as the sequence
\* of its characters; NoDisplay is the nil display.
Display(adapter) == [present |-> TRUE, adapter |-> adapter]

NoDisplay == [present |-> FALSE, adapter |-> <<>>]

\* The displays: none, "NVIDIA", "Intel", "AMD", "intelNVIDIA" and one
\* with an empty description.
Displays ==
    {NoDisplay,
     Display(<<"N", "V", "I", "D", "I", "A">>),
     Display(<<"I", "n", "t", "e", "l">>),
     Display(<<"A", "M", "D">>),
     Display(<<"i", "n", "t", "e", "l", "N", "V", "I", "D", "I", "A">>),
     Display(<<>>)}

\* strings.ToLower on a string of characters.
LowerAll(str) == [i \in 1..Len(str) |-> ToLower(str[i])]

\* strings.Contains(str, sub)
Contains(str, sub) ==
    \E i \in 0..(Len(str) - Len(sub)) : SubSeq(str, i + 1, i + Len(sub)) = sub

\* A switch that tests for "intel" first.
HintIntelFirst(hasNvidia, hasIntel) ==
    IF hasIntel THEN "intel" ELSE IF hasNvidia THEN "nvidia" ELSE ""

\* The switch of vendorKeyForDisplay.
HintOf(hasNvidia, hasIntel) ==
    IF hasNvidia THEN "nvidia" ELSE IF hasIntel THEN "intel" ELSE ""

\* App.vendorKeyForDisplay(d)
vendorKeyForDisplay(d) ==
    IF ~d.present
    THEN ""
    ELSE LET adapter == LowerAll(d.adapter)
         IN  HintOf(Contains(adapter, <<"n", "v", "i", "d", "i", "a">>),
                    Contains(adapter, <<"i", "n", "t", "e", "l">>))

\* App.ensureGPUDriver(): the hint of the current display, then
\* ensureGPUDriverForVendor(hint).
EnsureForDisplay(t) ==
    /\ det[t].pc = "idle"
    /\ \E d \in Displays :
          LET v == vendorKeyForDisplay(d)
          IN  /\ conv' = [op |-> "vendorKeyForDisplay", input |-> d,
                          output |-> v, err |-> FALSE, isnil |-> FALSE]
              /\ det' = [det EXCEPT ![t] = [IdleDet EXCEPT !.pc = "lock",
                                                           !.vendor = v,
                                                           !.key = KeyOf(v)]]
    /\ UNCHANGED <<providers, outcome, gpuDrivers, gpuDetectErrs, gpuDetectMu,
                   probes, misses>>
    /\ UNCHANGED life
    /\ UNCHANGED txVars

NextHint ==
    \/ EnsureForDisplay("t1")
    \/ EnsureLock("t1")
    \/ EnsureHit("t1")
    \/ EnsureDetect("t1")
    \/ EnsureFallback("t1")
    \/ EnsureStore("t1")
    \/ EnsureReturn("t1")

\* Scripts run one after another, each on the display then selected.
SpecHint == InitDetectConc /\ [][NextHint]_vars

\* The hint the description calls for.
ExpectedHint(d) ==
    IF ~d.present THEN ""
    ELSE IF Contains(LowerAll(d.adapter), <<"n", "v", "i", "d", "i", "a">>)
    THEN "nvidia"
    ELSE IF Contains(LowerAll(d.adapter), <<"i", "n", "t", "e", "l">>)
    THEN "intel"
    ELSE ""

\* C20: the vendor hint of a display is "nvidia" when the lower-cased
\* adapter description contains "nvidia", otherwise "intel" when it
\* contains "intel", otherwise empty, and empty for a missing display; an
\* empty hint makes ensureGPUDriverForVendor run only the unconditional
\* Detect pass (DetectByName is not called).
C20_VendorHint ==
    conv.op = "vendorKeyForDisplay" =>
       /\ conv.output = ExpectedHint(conv.input)
       /\ \A t \in Threads :
             det[t].pc # "idle" =>
                /\ det[t].vendor = conv.output
                /\ (det[t].vendor = "" /\ det[t].pc \in {"store", "done"}
                      /\ ~det[t].hit)
                   => (det[t].uncond /\ ~det[t].named /\ det[t].nlog = <<>>)
                /\ det[t].vendor = "" => det[t].pc # "fallback"

\* For an "AMD" display the hint was empty and the unconditional pass ran.
C20_Witness ==
    /\ conv.op = "vendorKeyForDisplay"
    /\ conv.input = Display(<<"A", "M", "D">>)
    /\ conv.output = ""
    /\ det["t1"].pc = "done"
    /\ det["t1"].uncond
    /\ ~det["t1"].named
    /\ det["t1"].ulog # <<>>

----------------------------------------------------------------------------
(* Construction of the backends: what each factory does with the outcomes
   of the native calls it makes. *)

\* Most adapters EnumDisplayDevices reports.
MaxAdapters == 2

\* Most monitors EnumDisplayDevices reports on one adapter.
MaxOutputs == 2

\* The package's sentinel errors, as leaves of their own.
errIntelUnavailable == <<-1>>

errIntelNoDisplay == <<-2>>

\* A hard error of a native call of the COM backend.
errIntelNative == <<1>>

\* An adapter as EnumDisplayDevices("", i) reports it: whether its
\* StateFlags have the active bit and its DeviceName is non-empty, and per
\* monitor index whether the monitor's StateFlags have the active bit. The
\* monitors of an adapter the scan skips are never enumerated, so such an
\* adapter is listed without any.
AdapterFlags == {"inactive", "unnamed", "active"}

Monitors == UNION {[1..n -> BOOLEAN] : n \in 0..MaxOutputs}

Adapters ==
    {a \in [flags : AdapterFlags, monitors : Monitors] :
        a.flags # "active" => a.monitors = <<>>}

\* The adapters of the machine, in enumeration order.
Systems == UNION {[1..n -> Adapters] : n \in 0..MaxAdapters}

\* How the acquisitions answer: attempt okAt succeeds (0: none does), every
\* other one fails with errIntelNoDisplay or with a hard error.
AcquireEnvs == [okAt : 0..(MaxAdapters * MaxOutputs),
                fail : {errIntelNoDisplay, errIntelNative}]

\* IntelCUI.AcquireDisplay on the k-th attempt of a scan.
AcquireDisplay(env, k) == IF k = env.okAt THEN Nil ELSE env.fail

\* A scan that takes every acquisition for a success.
AcquiredAlways(err) == TRUE

\* The scan's test of an acquisition: err == nil.
Acquired(err) == err = Nil

\* What findIntelDisplay returns, with the acquisitions it attempted.
Found(attempts, err) == [attempts |-> attempts, err |-> err]

\* findIntelDisplay from adapter a (1-based) and monitor index o (1-based)
\* on; an attempt is logged as <<adapter, outputIndex>>, outputIndex 0-based
\* as it is passed to AcquireDisplay.
RECURSIVE findIntelDisplayFrom(_, _, _, _, _)
findIntelDisplayFrom(sys, env, a, o, attempts) ==
    IF a > Len(sys)
    THEN Found(attempts, errIntelNoDisplay)
    ELSE IF sys[a].flags = "inactive"
    THEN findIntelDisplayFrom(sys, env, a + 1, 1, attempts)
    ELSE IF sys[a].flags = "unnamed"
    THEN findIntelDisplayFrom(sys, env, a + 1, 1, attempts)
    ELSE IF o > Len(sys[a].monitors)
    THEN IF o = 1
         THEN LET tried == Append(attempts, <<a, 0>>)
              IN  IF Acquired(AcquireDisplay(env, Len(tried)))
                  THEN Found(tried, Nil)
                  ELSE findIntelDisplayFrom(sys, env, a + 1, 1, tried)
         ELSE findIntelDisplayFrom(sys, env, a + 1, 1, attempts)
    ELSE IF ~sys[a].monitors[o]
    THEN findIntelDisplayFrom(sys, env, a, o + 1, attempts)
    ELSE LET tried == Append(attempts, <<a, o - 1>>)
         IN  IF Acquired(AcquireDisplay(env, Len(tried)))
             THEN Found(tried, Nil)
             ELSE findIntelDisplayFrom(sys, env, a, o + 1, tried)

\* findIntelDisplay(cui)
findIntelDisplay(sys, env) == findIntelDisplayFrom(sys, env, 1, 1, <<>>)

\* The outcomes of NewIntelCUI: the COM object, the class not registered,
\* or another failure of loading or creating.
CuiOutcomes == {Nil, errIntelUnavailable, errIntelNative}

\* What a factory returns, with what it did: the driver (or nil), the
\* error, the acquisitions attempted and the native session afterwards.
Built(driver, err, attempts, session) ==
    [driver |-> driver, err |-> err, attempts |-> attempts,
     session |-> session]

\* newIntelDriver()
newIntelDriver(cui, sys, env) ==
    IF cui # Nil
    THEN IF cui = errIntelUnavailable
         THEN Built(FALSE, ErrNoDriver, <<>>, NoLife)
         ELSE Built(FALSE, cui, <<>>, NoLife)
    ELSE LET f == findIntelDisplay(sys, env)
         IN  IF f.err # Nil
             THEN LET closed == [Closed(NewSession("igfx"))
                                    EXCEPT !.state = "failed"]
                  IN  IF f.err = errIntelNoDisplay
                      THEN Built(FALSE, ErrNoDriver, f.attempts, closed)
                      ELSE Built(FALSE, f.err, f.attempts, closed)
             ELSE Built(TRUE, Nil, f.attempts,
                        [NewSession("igfx") EXCEPT !.state = "live",
                                                   !.finalizer = TRUE])

\* The record of one factory call.
FactoryCall(name, input, b) ==
    [op |-> name, input |-> input, output |-> b, err |-> b.err # Nil,
     isnil |-> ~b.driver]

\* The COM backend's factory runs on a machine.
NewIntelDriver ==
    /\ conv = NoConv
    /\ life = NoLife
    /\ \E cui \in CuiOutcomes :
       \E sys \in IF cui = Nil THEN Systems ELSE {<<>>} :
       \E env \in IF cui = Nil THEN AcquireEnvs
                  ELSE {[okAt |-> 0, fail |-> errIntelNoDisplay]} :
          LET b == newIntelDriver(cui, sys, env)
          IN  /\ conv' = FactoryCall("newIntelDriver",
                                     [cui |-> cui, sys |-> sys, env |-> env],
                                     b)
              /\ life' = b.session
    /\ UNCHANGED txVars
    /\ UNCHANGED detVars

----------------------------------------------------------------------------
(* Properties of construction. *)

\* The active monitors of adapter a, as acquisition attempts, in order.
ActiveOutputs(sys, a) ==
    SelectSeq([o \in 1..Len(sys[a].monitors) |-> <<a, o - 1>>],
              LAMBDA p : sys[a].monitors[p[2] + 1])

\* The attempts findIntelDisplay makes on adapter a when none succeeds: the
\* adapter's active monitors, or output 0 when it has no monitor at all;
\* none on an adapter that is inactive or has no device name.
CandidatesOf(sys, a) ==
    IF sys[a].flags # "active"
    THEN <<>>
    ELSE IF Len(sys[a].monitors) = 0
    THEN << <<a, 0>> >>
    ELSE ActiveOutputs(sys, a)

\* The pairs of active adapter and active monitor, in enumeration order.
RECURSIVE ActivePairsFrom(_, _)
ActivePairsFrom(sys, a) ==
    IF a > Len(sys)
    THEN <<>>
    ELSE (IF sys[a].flags = "inactive" THEN <<>> ELSE ActiveOutputs(sys, a))
         \o ActivePairsFrom(sys, a + 1)

RECURSIVE CandidatesFrom(_, _)
CandidatesFrom(sys, a) ==
    IF a > Len(sys)
    THEN <<>>
    ELSE CandidatesOf(sys, a) \o CandidatesFrom(sys, a + 1)

\* The attempts made on a list of pairs: all of them up to and including
\* the first success, or all of them.
TriedOf(pairs, env) ==
    IF env.okAt \in 1..Len(pairs) THEN SubSeq(pairs, 1, env.okAt) ELSE pairs

\* newIntelDriver got its COM object and scanned for a display.
Scanned == conv.op = "newIntelDriver" /\ conv.input.cui = Nil

\* What newIntelDriver returns after a scan of the pairs: the driver when an
\* attempt succeeded, else ErrNoDriver with the COM object released once.
ScanResult(pairs) ==
    IF conv.input.env.okAt \in 1..Len(pairs)
    THEN /\ conv.output.driver
         /\ conv.output.err = Nil
         /\ life.released = 0
    ELSE /\ ~conv.output.driver
         /\ conv.output.err = ErrNoDriver
         /\ life.released = 1
         /\ ~life.obj

\* C21 (as stated): the acquisitions attempted are the pairs of active
\* adapter and active monitor in enumeration order, up to the first success
\* and none after it; when none succeeds the COM object is released and
\* ErrNoDriver returned.
C21_AcquisitionAsStated ==
    Scanned =>
        /\ conv.output.attempts =
              TriedOf(ActivePairsFrom(conv.input.sys, 1), conv.input.env)
        /\ ScanResult(ActivePairsFrom(conv.input.sys, 1))

\* C21 (amended): the acquisitions attempted are, adapter by adapter in
\* enumeration order over the active adapters that have a device name, the
\* adapter's active monitors in order, or output 0 when the adapter reports
\* no monitor at all; the scan stops at the first success; when no attempt
\* succeeds the COM object is released once and ErrNoDriver is returned,
\* whatever error the attempts returned.
C21_AcquisitionOrder ==
    Scanned =>
        /\ conv.output.attempts =
              TriedOf(CandidatesFrom(conv.input.sys, 1), conv.input.env)
        /\ ScanResult(CandidatesFrom(conv.input.sys, 1))

\* A scan whose second attempt succeeded after a hard failure of the first,
\* with a pair left untried.
C21_Witness ==
    /\ Scanned
    /\ conv.input.env.okAt = 2
    /\ conv.input.env.fail = errIntelNative
    /\ Len(conv.output.attempts) = 2
    /\ Len(CandidatesFrom(conv.input.sys, 1)) > 2
    /\ conv.output.driver

\* A scan in which every attempt failed with a hard error.
C21_WitnessNone ==
    /\ Scanned
    /\ conv.input.env.okAt = 0
    /\ conv.input.env.fail = errIntelNative
    /\ Len(conv.output.attempts) = 3
    /\ conv.output.err = ErrNoDriver

----------------------------------------------------------------------------
(* The control-library factory. *)

errIGCLUnavailable == <<-3>>

errIGCLNoDisplay == <<-4>>

\* A hard error of the control-library backend: a load error other than
\* not-found, a missing export, or a native call's failure status.
errIGCLNative == <<2>>

\* How loading ControlLib.dll ends: loaded with every export, the file not
\* found, another load error, or an export missing.
LoadOutcomes == {"ok", "notfound", "loaderr", "noproc"}

\* The outcomes of the native calls newIGCLContext makes: the status of
\* ctlInit and of the four enumeration calls, and the counts reported.
IGCLEnvs ==
    [load : LoadOutcomes, init : BOOLEAN,
     devCountOk : BOOLEAN, devCount : 0..MaxAdapters, devGetOk : BOOLEAN,
     outCountOk : BOOLEAN, outCount : 0..MaxOutputs, outGetOk : BOOLEAN]

\* A loader that takes a missing export for a missing library.
LoadErrorAllUnavailable(load) ==
    IF load = "ok" THEN Nil ELSE errIGCLUnavailable

\* ensureControlLibLoaded / loadControlLibFromSystem32
loadControlLibFromSystem32(load) ==
    IF load = "ok"
    THEN Nil
    ELSE IF load = "notfound"
    THEN errIGCLUnavailable
    ELSE errIGCLNative

\* What newIGCLContext returns: the context (or nil), the error, and the
\* native session with its count of ctlClose calls.
Context(ctx, err, session) == [ctx |-> ctx, err |-> err, session |-> session]

\* A failure past ctlInit that returns without closing the context.
ContextFailedNoClose(err) ==
    Context(FALSE, err, [NewSession("igcl") EXCEPT !.state = "failed"])

\* The context after a failure past ctlInit: ctx.Close() was called.
ContextFailed(err) ==
    Context(FALSE, err, [Closed(NewSession("igcl")) EXCEPT !.state = "failed"])

\* newIGCLContext()
newIGCLContext(env) ==
    IF loadControlLibFromSystem32(env.load) # Nil
    THEN Context(FALSE, loadControlLibFromSystem32(env.load), NoLife)
    ELSE IF ~env.init
    THEN Context(FALSE, errIGCLNative, NoLife)
    ELSE IF ~env.devCountOk
    THEN ContextFailed(errIGCLNative)
    ELSE IF env.devCount = 0
    THEN ContextFailed(errIGCLUnavailable)
    ELSE IF ~env.devGetOk
    THEN ContextFailed(errIGCLNative)
    ELSE IF ~env.outCountOk
    THEN ContextFailed(errIGCLNative)
    ELSE IF env.outCount = 0
    THEN ContextFailed(errIGCLNoDisplay)
    ELSE IF ~env.outGetOk
    THEN ContextFailed(errIGCLNative)
    ELSE Context(TRUE, Nil, [NewSession("igcl") EXCEPT !.state = "live"])

\* newIntelIGCLDriver()
newIntelIGCLDriver(env) ==
    LET c == newIGCLContext(env)
    IN  IF c.err # Nil
        THEN IF c.err = errIGCLUnavailable \/ c.err = errIGCLNoDisplay
             THEN Built(FALSE, ErrNoDriver, <<>>, c.session)
             ELSE Built(FALSE, c.err, <<>>, c.session)
        ELSE Built(TRUE, Nil, <<>>, [c.session EXCEPT !.finalizer = TRUE])

\* The control-library factory runs on a machine.
NewIntelIGCLDriver ==
    /\ conv = NoConv
    /\ life = NoLife
    /\ \E env \in IGCLEnvs :
          LET b == newIntelIGCLDriver(env)
          IN  /\ conv' = FactoryCall("newIntelIGCLDriver", env, b)
              /\ life' = b.session
    /\ UNCHANGED txVars
    /\ UNCHANGED detVars

\* The control-library factory was called.
BuiltIGCL == conv.op = "newIntelIGCLDriver"

\* The library was not located.
IGCLNotLocated == conv.input.load = "notfound"

\* The library was loaded and initialised, and the count of adapters was
\* enumerated as zero.
IGCLNoAdapter ==
    /\ conv.input.load = "ok"
    /\ conv.input.init
    /\ conv.input.devCountOk
    /\ conv.input.devCount = 0

\* The adapters were enumerated and the first one reported zero outputs.
IGCLNoOutput ==
    /\ conv.input.load = "ok"
    /\ conv.input.init
    /\ conv.input.devCountOk
    /\ conv.input.devCount > 0
    /\ conv.input.devGetOk
    /\ conv.input.outCountOk
    /\ conv.input.outCount = 0

\* C22: the control-library factory returns ErrNoDriver exactly when the
\* library is not located, zero adapters are enumerated, or the first
\* adapter has zero outputs; every other failure of construction is an error
\* that does not match ErrNoDriver.
C22_IGCLNotApplicable ==
    BuiltIGCL =>
        /\ (conv.output.err = ErrNoDriver) <=>
              (IGCLNotLocated \/ IGCLNoAdapter \/ IGCLNoOutput)
        /\ (conv.output.err # Nil /\ conv.output.err # ErrNoDriver) =>
              ~IsErrNoDriver(conv.output.err)
        /\ (conv.output.err = Nil) <=> conv.output.driver

\* The first adapter has no output and the factory reports not applicable,
\* after closing the session it had opened.
C22_Witness ==
    /\ BuiltIGCL
    /\ IGCLNoOutput
    /\ conv.output.err = ErrNoDriver
    /\ ~conv.output.driver

----------------------------------------------------------------------------
(* The NVIDIA factory. *)

\* Most display handles NvAPI_EnumNvidiaDisplayHandle reports.
MaxHandles == 2

\* syscall.ERROR_MOD_NOT_FOUND, wrapped in the error of dll.Load.
errModNotFound == <<-5>>

errNoPhysicalGPU == <<-6>>

errNoActiveDisplayPort == <<-7>>

\* A hard error of the NVIDIA backend: another load error, or statusError
\* of a native call.
errNvapiNative == <<3>>

\* A display handle as the native calls describe it: whether
\* NvAPI_GetAssociatedDisplayOutputId and NvAPI_GetDisplayPortInfo succeed
\* on it, and the Flags byte of the info (2: a bit other than bit 0).
Handles == [out : BOOLEAN, dp : BOOLEAN, flags : 0..2]

HandleLists == UNION {[1..n -> Handles] : n \in 0..MaxHandles}

\* The outcomes of the native calls of the factory: loading nvapi64.dll,
\* whether a required function address came back zero, the status of
\* NvAPI_Initialize and NvAPI_EnumPhysicalGPUs with the count reported,
\* whether the handle enumeration ends with END_ENUMERATION or an error
\* status, and the handles.
NvEnvs ==
    [load : {"ok", "notfound", "loaderr"}, missing : BOOLEAN,
     init : BOOLEAN, gpuOk : BOOLEAN, gpuCount : 0..1, enumOk : BOOLEAN,
     handles : HandleLists]

\* The output id NvAPI_GetAssociatedDisplayOutputId reports for the i-th
\* handle; the handle itself is i.
OutputIdOf(i) == i + MaxHandles

\* A test that takes any non-zero flag for the active bit.
FlagSetAny(flags) == flags # 0

\* info.Flags&1 != 0
FlagSet(flags) == flags % 2 = 1

\* loadNvapiProcs()
loadNvapiProcs(env) ==
    IF env.load = "notfound"
    THEN errModNotFound
    ELSE IF env.load = "loaderr"
    THEN errNvapiNative
    ELSE IF env.missing
    THEN ErrNoDriver
    ELSE IF ~env.init
    THEN errNvapiNative
    ELSE Nil

\* nvapiProcs.enumPhysicalGPUs: the error it returns.
enumPhysicalGPUs(env) ==
    IF ~env.gpuOk
    THEN errNvapiNative
    ELSE IF env.gpuCount <= 0
    THEN errNoPhysicalGPU
    ELSE Nil

\* What findActiveDisplayPort returns.
Port(handle, outputID, err) ==
    [handle |-> handle, outputID |-> outputID, err |-> err]

\* The loop of findActiveDisplayPort from handle i on.
RECURSIVE findActiveDisplayPortFrom(_, _)
findActiveDisplayPortFrom(handles, i) ==
    IF i > Len(handles)
    THEN Port(0, 0, errNoActiveDisplayPort)
    ELSE IF ~handles[i].out
    THEN findActiveDisplayPortFrom(handles, i + 1)
    ELSE IF ~handles[i].dp
    THEN findActiveDisplayPortFrom(handles, i + 1)
    ELSE IF FlagSet(handles[i].flags)
    THEN Port(i, OutputIdOf(i), Nil)
    ELSE findActiveDisplayPortFrom(handles, i + 1)

\* nvapiProcs.findActiveDisplayPort
findActiveDisplayPort(env) ==
    IF ~env.enumOk
    THEN Port(0, 0, errNvapiNative)
    ELSE findActiveDisplayPortFrom(env.handles, 1)

\* The errors newNVAPIDriver reports as ErrNoDriver after loadNvapiProcs.
NvLoadNotApplicable(err) ==
    \/ IsErrNoDriver(err)
    \/ err = errModNotFound
    \/ err = errNoPhysicalGPU
    \/ err = errNoActiveDisplayPort

\* What the NVIDIA factory returns: as Built, with the handle and output
\* id the driver is bound to.
NvBuilt(driver, err, session, handle, outputID) ==
    [driver |-> driver, err |-> err, attempts |-> <<>>, session |-> session,
     displayHandle |-> handle, outputID |-> outputID]

\* The NVAPI session once NvAPI_Initialize succeeded; nothing closes it.
NvSession(state) == [NewSession("nvapi") EXCEPT !.state = state]

\* newNVAPIDriver()
newNVAPIDriver(env) ==
    IF loadNvapiProcs(env) # Nil
    THEN IF NvLoadNotApplicable(loadNvapiProcs(env))
         THEN NvBuilt(FALSE, ErrNoDriver, NoLife, 0, 0)
         ELSE NvBuilt(FALSE, loadNvapiProcs(env), NoLife, 0, 0)
    ELSE IF enumPhysicalGPUs(env) # Nil
    THEN IF enumPhysicalGPUs(env) = errNoPhysicalGPU
         THEN NvBuilt(FALSE, ErrNoDriver, NvSession("failed"), 0, 0)
         ELSE NvBuilt(FALSE, enumPhysicalGPUs(env), NvSession("failed"), 0, 0)
    ELSE LET p == findActiveDisplayPort(env)
         IN  IF p.err # Nil
             THEN IF p.err = errNoActiveDisplayPort
                  THEN NvBuilt(FALSE, ErrNoDriver, NvSession("failed"), 0, 0)
                  ELSE NvBuilt(FALSE, p.err, NvSession("failed"), 0, 0)
             ELSE NvBuilt(TRUE, Nil, NvSession("live"), p.handle, p.outputID)

\* The NVIDIA factory gets as far as scanning the display handles.
NvScans(env) ==
    /\ env.load = "ok"
    /\ ~env.missing
    /\ env.init
    /\ env.gpuOk
    /\ env.gpuCount > 0
    /\ env.enumOk

\* The NVIDIA factory runs on a machine.
NewNVAPIDriver ==
    /\ conv = NoConv
    /\ life = NoLife
    /\ \E env \in NvEnvs :
          /\ (~NvScans(env)) => env.handles = <<>>
          /\ LET b == newNVAPIDriver(env)
             IN  /\ conv' = FactoryCall("newNVAPIDriver", env, b)
                 /\ life' = b.session
    /\ UNCHANGED txVars
    /\ UNCHANGED detVars

\* The NVIDIA factory was called.
BuiltNv == conv.op = "newNVAPIDriver"

\* A factory found its library but not an entry point it needs: a function
\* address queried from nvapi64.dll is zero, or ControlLib.dll lacks an
\* export.
EntryPointMissing ==
    \/ BuiltNv /\ conv.input.load = "ok" /\ conv.input.missing
    \/ BuiltIGCL /\ conv.input.load = "noproc"

\* C23: on every backend, a library that is found but lacks an expected
\* entry point makes the factory return a hard error, one that does not
\* match ErrNoDriver.
C23_MissingEntryPointIsHard ==
    EntryPointMissing =>
        /\ conv.output.err # Nil
        /\ ~IsErrNoDriver(conv.output.err)

\* The part of C23 that holds: the control-library factory reports a
\* missing export as a hard error.
C23_IGCLMissingExportIsHard ==
    (BuiltIGCL /\ conv.input.load = "noproc") =>
        /\ conv.output.err = errIGCLNative
        /\ ~conv.output.driver

\* Handle i answers both queries and its Flags have bit 0.
ActivePort(handles, i) ==
    /\ handles[i].out
    /\ handles[i].dp
    /\ handles[i].flags = 1

\* The first handle in enumeration order that is an active port, 0 if none.
FirstActivePort(handles) ==
    IF \E i \in 1..Len(handles) : ActivePort(handles, i)
    THEN CHOOSE i \in 1..Len(handles) :
            /\ ActivePort(handles, i)
            /\ \A j \in 1..(i - 1) : ~ActivePort(handles, j)
    ELSE 0

\* The library is loaded with every function and NvAPI_Initialize succeeded.
NvLoaded == conv.input.load = "ok" /\ ~conv.input.missing /\ conv.input.init

\* C25: the NVIDIA factory succeeds only if a physical GPU is enumerated and
\* some display handle answers both queries with flag bit 0 set; the driver
\* is bound to the first such handle in enumeration order and to that
\* handle's output id; with no physical GPU, or with the handles enumerated
\* and none of them such a handle, it returns ErrNoDriver.
C25_NvidiaBindsFirstActivePort ==
    BuiltNv =>
        /\ conv.output.driver =>
              /\ NvLoaded
              /\ conv.input.gpuOk /\ conv.input.gpuCount >= 1
              /\ FirstActivePort(conv.input.handles) # 0
              /\ conv.output.displayHandle =
                    FirstActivePort(conv.input.handles)
              /\ conv.output.outputID =
                    OutputIdOf(FirstActivePort(conv.input.handles))
              /\ conv.output.err = Nil
        /\ (NvLoaded /\ conv.input.gpuOk /\ conv.input.gpuCount = 0) =>
              conv.output.err = ErrNoDriver /\ ~conv.output.driver
        /\ (NvScans(conv.input) /\ FirstActivePort(conv.input.handles) = 0) =>
              conv.output.err = ErrNoDriver /\ ~conv.output.driver
        /\ (NvScans(conv.input) /\ FirstActivePort(conv.input.handles) # 0) =>
              conv.output.driver

\* The driver is bound to the second handle: the first has a flag other
\* than bit 0, or fails a query.
C25_Witness ==
    /\ BuiltNv
    /\ conv.output.driver
    /\ conv.output.displayHandle = 2
    /\ conv.input.handles[1].flags = 2
    /\ conv.input.handles[1].out
    /\ conv.input.handles[1].dp

----------------------------------------------------------------------------
(* The preferred chain of the Intel backends. *)

\* What newIntelIGFXDriver returns: a driver, ErrNoDriver or a hard error.
IGFXOutcomes == {Nil, ErrNoDriver, errIntelNative}

\* A chain that forgets the first backend's error.
PreferredFailedLast(igfxErr, err) == err

\* newIntelPreferredDriver once both backends failed: igfxErr is the hard
\* error kept from the igfx backend (nil if none), err the IGCL error.
PreferredFailed(igfxErr, err) ==
    IF IsErrNoDriver(err)
    THEN IF igfxErr # Nil THEN igfxErr ELSE ErrNoDriver
    ELSE IF igfxErr # Nil
    THEN igfxErr \o err
    ELSE err

\* The error newIntelPreferredDriver keeps from the igfx backend.
KeptIGFXErr(available, igfx) ==
    IF available /\ igfx # Nil /\ ~IsErrNoDriver(igfx) THEN igfx ELSE Nil

\* newIntelPreferredDriver(): attempts lists the backends tried, in order.
newIntelPreferredDriver(available, igfx, env) ==
    IF available /\ igfx = Nil
    THEN Built(TRUE, Nil, <<"igfx">>,
               [NewSession("igfx") EXCEPT !.state = "live"])
    ELSE LET tried == IF available THEN <<"igfx", "igcl">> ELSE <<"igcl">>
             b == newIntelIGCLDriver(env)
         IN  IF b.err = Nil
             THEN Built(TRUE, Nil, tried, b.session)
             ELSE Built(FALSE,
                        PreferredFailed(KeptIGFXErr(available, igfx), b.err),
                        tried, b.session)

\* The preferred chain runs on a machine.
NewIntelPreferredDriver ==
    /\ conv = NoConv
    /\ life = NoLife
    /\ \E available \in BOOLEAN :
       \E igfx \in IGFXOutcomes :
       \E env \in IGCLEnvs :
          LET b == newIntelPreferredDriver(available, igfx, env)
          IN  /\ conv' = FactoryCall("newIntelPreferredDriver",
                                     [available |-> available,
                                      igfx |-> igfx, env |-> env], b)
              /\ life' = b.session
    /\ UNCHANGED txVars
    /\ UNCHANGED detVars

\* The preferred chain was called.
BuiltPreferred == conv.op = "newIntelPreferredDriver"

\* The igfx backend was tried and gave a driver.
IGFXGave == conv.input.available /\ conv.input.igfx = Nil

\* The igfx backend was tried and failed with a hard error.
IGFXHard ==
    /\ conv.input.available
    /\ conv.input.igfx # Nil
    /\ conv.input.igfx # ErrNoDriver

\* The error of the IGCL backend on the machine of the call.
IGCLErr == newIntelIGCLDriver(conv.input.env).err

\* C24: the chain tries igfx first when it is available and IGCL second,
\* returns the first driver without trying the next backend, and when both
\* fail returns ErrNoDriver if both were not applicable, the one hard error
\* if one was hard, and the join of both, igfx first, if both were hard; it
\* never joins ErrNoDriver with a hard error.
C24_PreferredChain ==
    BuiltPreferred =>
        /\ IGFXGave =>
              /\ conv.output.driver
              /\ conv.output.err = Nil
              /\ conv.output.attempts = <<"igfx">>
        /\ ~IGFXGave =>
              /\ conv.output.attempts =
                    IF conv.input.available
                    THEN <<"igfx", "igcl">>
                    ELSE <<"igcl">>
              /\ conv.output.driver <=> IGCLErr = Nil
              /\ conv.output.driver => conv.output.err = Nil
        /\ (~conv.output.driver /\ ~IGFXHard /\ IGCLErr = ErrNoDriver) =>
              conv.output.err = ErrNoDriver
        /\ (~conv.output.driver /\ IGFXHard /\ IGCLErr = ErrNoDriver) =>
              conv.output.err = conv.input.igfx
        /\ (~conv.output.driver /\ ~IGFXHard /\ IGCLErr # ErrNoDriver) =>
              conv.output.err = IGCLErr
        /\ (~conv.output.driver /\ IGFXHard /\ IGCLErr # ErrNoDriver) =>
              conv.output.err = conv.input.igfx \o IGCLErr
        /\ IsErrNoDriver(conv.output.err) => conv.output.err = ErrNoDriver

\* Both backends failed hard and the chain returned the join, igfx first.
C24_Witness ==
    /\ BuiltPreferred
    /\ IGFXHard
    /\ IGCLErr = errIGCLNative
    /\ conv.output.err = errIntelNative \o errIGCLNative
    /\ ~conv.output.driver

----------------------------------------------------------------------------
(* Invocations of the factories within one detection request. *)

\* How often factory f was invoked in a pass with log log.
InvokedIn(log, f) == Cardinality({i \in 1..Len(log) : log[i] = f})

\* How often factory f was invoked by the request of caller t so far: in
\* its named pass and in its unconditional pass.
InvokedBy(t, f) == InvokedIn(det[t].nlog, f) + InvokedIn(det[t].ulog, f)

\* C27: within one request that misses the cache, the named pass and the
\* fallback to the unconditional pass included, each registered factory is
\* invoked at most once.
C27_FactoryOncePerRequest ==
    \A t \in DOMAIN det :
        \A f \in DOMAIN probes : InvokedBy(t, f) <= 1

\* The part of C27 that holds: within one pass of a request each factory is
\* invoked at most once, so a request invokes a factory at most twice.
C27_FactoryOncePerPass ==
    \A t \in DOMAIN det :
        \A f \in DOMAIN probes :
            /\ InvokedIn(det[t].nlog, f) <= 1
            /\ InvokedIn(det[t].ulog, f) <= 1

\* A request whose named pass invoked the factory registered under the
\* vendor and fell back, and whose unconditional pass invoked it again.
C27_InvokedTwice ==
    \E t \in DOMAIN det :
        \E f \in DOMAIN probes :
            /\ det[t].pc = "done"
            /\ det[t].named /\ det[t].uncond
            /\ InvokedIn(det[t].nlog, f) = 1
            /\ InvokedIn(det[t].ulog, f) = 1

----------------------------------------------------------------------------
(* The length of a successful DPCD read. *)

\* Caller t's DPCD read of at least one byte returned without an error.
ReadDpcdSucceeded(t) ==
    /\ tx[t].pc = "done"
    /\ tx[t].kind = "read_dpcd"
    /\ tx[t].len >= 1
    /\ tx[t].ret.err = "nil"

\* C28: a successful ReadDPCD(addr, length) with length >= 1 returns
\* exactly length bytes on every backend.
C28_ReadReturnsRequestedLength ==
    \A t \in Threads :
        ReadDpcdSucceeded(t) => Len(tx[t].ret.data) = tx[t].len

\* The part of C28 that holds: on the two Intel backends a successful read
\* returns exactly length bytes, and on the NVIDIA backend never more.
C28_IntelExactNvidiaAtMost ==
    \A t \in Threads :
        ReadDpcdSucceeded(t) =>
            /\ drv \in {"igfx", "igcl"} => Len(tx[t].ret.data) = tx[t].len
            /\ Len(tx[t].ret.data) <= tx[t].len

\* An NVIDIA read of 16 bytes that succeeded with fewer.
C28_ShortRead ==
    /\ drv = "nvapi"
    /\ ReadDpcdSucceeded("t1")
    /\ tx["t1"].len = 16
    /\ Len(tx["t1"].ret.data) < 16

----------------------------------------------------------------------------
(* The calls of IntelCUI.I2CRead. *)

\* Caller t is in, or has finished, an I2C read of at least one byte on the
\* COM backend, which is IntelCUI.I2CRead(slave, reg, length).
InCuiI2CRead(t) ==
    /\ drv = "igfx"
    /\ tx[t].kind = "read_i2c"
    /\ tx[t].len >= 1

\* A native call of the COM backend failed: by its HRESULT or device code.
AuxFailed(c) == c.res \in {"hr", "dev"}

\* The j-th native call is what the claim gives for a read of length n from
\* register reg of slave: the setup (odd j) or the read (even j) of chunk
\* (j - 1) \div 2.
StatedI2CReadCall(c, j, slave, reg, n) ==
    LET i == (j - 1) \div 2
    IN  IF j % 2 = 1
        THEN /\ c.api = "cui44"
             /\ c.op = 0
             /\ c.addr = <<0, 2 * slave>>
             /\ c.size = 1
             /\ c.data = <<(reg + 16 * i) % 256>>
        ELSE /\ c.api = "cui43"
             /\ c.op = (IF 16 * (i + 1) >= n THEN 1 ELSE 5)
             /\ c.addr = <<0, 2 * slave>>
             /\ c.size = (IF n - 16 * i > 16 THEN 16 ELSE n - 16 * i)

\* The error of a failed call of an I2C read.
StatedI2CReadError(c) ==
    (IF c.api = "cui44" THEN "I2C setup" ELSE "I2C read")
        \o (IF c.res = "hr" THEN ": AUX call failed" ELSE ": AUX device error")

\* C29: IntelCUI.I2CRead of length L >= 1 issues, chunk by chunk for its
\* ceil(L/16) chunks, one register-setup write and then one read of
\* min(16, remaining) bytes to the same slave; the setup of chunk i carries
\* the register (reg + 16*i) mod 256; the read of the final chunk, and only
\* that one, has operation code 1, the earlier ones code 5; a failed setup
\* or read ends the call with that error and no further native call.
C29_I2CReadChunks ==
    \A t \in Threads :
        InCuiI2CRead(t) =>
            LET cs == calls[t]
                n == tx[t].len
                chunks == (n + 15) \div 16
            IN  /\ Len(cs) <= 2 * chunks
                /\ \A j \in 1..Len(cs) :
                      StatedI2CReadCall(cs[j], j, I2CSlave(tx[t].addr),
                                        I2CReg(tx[t].addr), n)
                /\ \A j \in 1..(Len(cs) - 1) : ~AuxFailed(cs[j])
                /\ (cs # <<>> /\ AuxFailed(cs[Len(cs)])) =>
                      /\ tx[t].pc = "done"
                      /\ tx[t].ret.err = StatedI2CReadError(cs[Len(cs)])
                      /\ tx[t].ret.isnil /\ tx[t].ret.data = <<>>
                /\ (tx[t].pc = "done"
                      /\ ~(cs # <<>> /\ AuxFailed(cs[Len(cs)]))) =>
                      /\ Len(cs) = 2 * chunks
                      /\ tx[t].ret.err = "nil"
                      /\ Len(tx[t].ret.data) = n

\* A read of 33 bytes from register 0x1F8 finished: three setups carrying
\* 0xF8, 0x08 and 0x18, and three reads of 16, 16 and 1 bytes with the codes
\* 5, 5 and 1.
C29_Witness ==
    /\ InCuiI2CRead("t1")
    /\ tx["t1"].pc = "done"
    /\ tx["t1"].len = 33
    /\ tx["t1"].ret.err = "nil"
    /\ Len(calls["t1"]) = 6
    /\ calls["t1"][3].data = <<8>>
    /\ calls["t1"][4].op = 5
    /\ calls["t1"][6].op = 1
    /\ calls["t1"][6].size = 1

----------------------------------------------------------------------------
(* The native session after a failed construction. *)

\* A factory was called.
FactoryCalled ==
    conv.op \in {"newIntelDriver", "newIntelIGCLDriver", "newNVAPIDriver",
                 "newIntelPreferredDriver"}

\* The call ran newIGCLContext and ctlInit succeeded in it.
CtlInitSucceeded ==
    /\ \/ BuiltIGCL
       \/ BuiltPreferred /\ ~IGFXGave
    /\ LET env == IF BuiltIGCL THEN conv.input ELSE conv.input.env
       IN  env.load = "ok" /\ env.init

\* C30: a failed construction leaks no native session: every failure of
\* newIGCLContext after ctlInit succeeded calls ctlClose exactly once and
\* its success calls it not at all; a failure of display acquisition in
\* newIntelDriver releases the COM object exactly once; and a factory that
\* returns an error returns no driver.
C30_FailedConstructionReleases ==
    /\ CtlInitSucceeded =>
          IF conv.output.err # Nil
          THEN life.released = 1 /\ life.closes = 1 /\ ~life.obj
          ELSE life.released = 0 /\ life.closes = 0 /\ life.obj
    /\ Scanned =>
          IF conv.output.err # Nil
          THEN life.released = 1 /\ life.closes = 1 /\ ~life.obj
          ELSE life.released = 0 /\ life.closes = 0 /\ life.obj
    /\ FactoryCalled =>
          /\ conv.output.err # Nil => ~conv.output.driver
          /\ conv.output.err = Nil => conv.output.driver
          /\ conv.err = (conv.output.err # Nil)
          /\ conv.isnil = ~conv.output.driver

\* newIGCLContext failed at its last enumeration call, after ctlInit and
\* three enumeration calls succeeded, and closed the session.
C30_Witness ==
    /\ BuiltIGCL
    /\ CtlInitSucceeded
    /\ conv.input.devCountOk /\ conv.input.devCount > 0
    /\ conv.input.devGetOk
    /\ conv.input.outCountOk /\ conv.input.outCount > 0
    /\ ~conv.input.outGetOk
    /\ conv.output.err = errIGCLNative
    /\ life.released = 1

----------------------------------------------------------------------------
(* The factories, each called once. *)

\* No transaction, registry or session yet.
InitFactory == TxIdle /\ DetIdle /\ AuxIdle

NextFactory ==
    \/ NewIntelDriver
    \/ NewIntelIGCLDriver
    \/ NewNVAPIDriver
    \/ NewIntelPreferredDriver

\* One call of one factory on every machine.
SpecFactory == InitFactory /\ [][NextFactory]_vars

----------------------------------------------------------------------------
(* The errors of the COM backend's AUX calls. *)

\* The operations that end in auxErr, by the name they pass to it.
AuxOps == {"ReadDPCD", "WriteDPCD", "I2CWrite", "I2C setup", "I2C read"}

\* The HRESULT of the native call: S_OK, a success code, or a failure.
HResults == {0, 1, -1}

\* The device error code the native call reports.
DevCodes == {0, 1, 66, 67, 68, 69, 70, 71, 72, -1}

\* FAILED(hr)
FAILED(hr) == hr < 0

\* A decode table that leaves an unknown code without text.
AuxTextKnownOnly(code) ==
    CASE code = 67 -> "Invalid AUX device"
      [] code = 68 -> "Invalid AUX address"
      [] code = 69 -> "Invalid AUX data size"
      [] code = 70 -> "AUX defer"
      [] code = 71 -> "AUX timeout"
      [] OTHER -> ""

\* auxErr: the switch on code; "%d" stands for the code, printed.
AuxText(code) ==
    CASE code = 67 -> "Invalid AUX device"
      [] code = 68 -> "Invalid AUX address"
      [] code = 69 -> "Invalid AUX data size"
      [] code = 70 -> "AUX defer"
      [] code = 71 -> "AUX timeout"
      [] code = 0 -> ""
      [] OTHER -> "AUX unknown error (%d)"

\* The error auxErr builds: the operation prefix, the text, the code
\* printed into the text (if the text has a "%d") and the HRESULT printed
\* after it (if the call failed).
AuxError(op, text, code, hr) ==
    [op |-> op, text |-> text, code |-> code, hr |-> hr]

\* No error.
NoAuxError == AuxError("", "", <<>>, <<>>)

\* IntelCUI.auxErr(op, hr, code)
auxErrOf(op, hr, code) ==
    LET text == AuxText(code)
        printed == IF text = "AUX unknown error (%d)" THEN <<code>> ELSE <<>>
        msg == IF FAILED(hr) /\ text = "" THEN "AUX call failed" ELSE text
        suffix == IF FAILED(hr) THEN <<hr>> ELSE <<>>
    IN  IF op = "" /\ msg = ""
        THEN AuxError("", "intel igfx: unexpected AUX error", <<>>, <<>>)
        ELSE AuxError(op, msg, printed, suffix)

\* What an AUX operation returns after its native call: the error, and
\* whether data (a buffer for the reads) comes with it.
AuxReturn(op, hr, code) ==
    IF FAILED(hr) \/ code # 0
    THEN [err |-> auxErrOf(op, hr, code), data |-> FALSE]
    ELSE [err |-> NoAuxError, data |-> op \in {"ReadDPCD", "I2C read"}]

\* One AUX operation of the COM backend gets its native call's answer.
AuxCall ==
    /\ conv = NoConv
    /\ \E op \in AuxOps, hr \in HResults, code \in DevCodes :
          LET r == AuxReturn(op, hr, code)
          IN  conv' = [op |-> "auxCall",
                       input |-> [op |-> op, hr |-> hr, code |-> code],
                       output |-> r.err, err |-> r.err # NoAuxError,
                       isnil |-> ~r.data]
    /\ UNCHANGED life
    /\ UNCHANGED txVars
    /\ UNCHANGED detVars

NextAux == AuxCall

\* One AUX operation on every answer of the native call.
SpecAux == InitFactory /\ [][NextAux]_vars

\* The text the claim gives for a device code, "" for the others.
StatedText(code) ==
    CASE code = 67 -> "Invalid AUX device"
      [] code = 68 -> "Invalid AUX address"
      [] code = 69 -> "Invalid AUX data size"
      [] code = 70 -> "AUX defer"
      [] code = 71 -> "AUX timeout"
      [] OTHER -> ""

\* C26: an AUX call of the COM backend whose HRESULT is a failure or whose
\* device code is non-zero returns an error and no data; the codes 67 to
\* 71 give invalid device, invalid address, invalid data size, AUX defer
\* and AUX timeout; any other non-zero code gives an error whose text holds
\* the code.
C26_AuxErrorDecoded ==
    (conv.op = "auxCall"
       /\ (conv.input.hr < 0 \/ conv.input.code # 0)) =>
        /\ conv.err
        /\ conv.isnil
        /\ conv.output.text # ""
        /\ conv.output.op = conv.input.op
        /\ conv.input.code \in 67..71 =>
              /\ conv.output.text = StatedText(conv.input.code)
              /\ conv.output.code = <<>>
        /\ (conv.input.code # 0 /\ conv.input.code \notin 67..71) =>
              /\ conv.output.code = <<conv.input.code>>
              /\ conv.output.text = "AUX unknown error (%d)"

\* An unknown device code on a call whose HRESULT succeeded.
C26_Witness ==
    /\ conv.op = "auxCall"
    /\ conv.input.hr = 0
    /\ conv.input.code = 72
    /\ conv.err
    /\ conv.output.code = <<72>>

====
